---- MODULE Spec2Model ----
(***************************************************************************)
(* The shared informer of the watch factory: handlers with priorities,     *)
(* the queue map that serialises events per object key, the federated and  *)
(* the queued cache callbacks, handler registration with its initial       *)
(* replay, and handler removal.                                            *)
(***************************************************************************)
EXTENDS Integers, Sequences, FiniteSets, TLC

\* ------------------------------------------------------------- bounds
\* number of event queues the informer is built with (numEventQueues)
NumQueues == 2
\* capacity of every event channel (10 in newQueueMap, scaled down)
QueueCap == 2
\* The environment is explored in two runs. In a burst run the cache delivers
\* up to MaxEvents events while at most FewHandlers handlers are registered,
\* each with a snapshot of at most FewItems items. In a registration run up to
\* MaxHandlers handlers are registered, each with a snapshot of at most
\* MaxItems items, the stop channel may be closed, and the cache delivers at
\* most FewEvents events.
MaxEvents == 3
FewHandlers == 1
FewItems == 0
MaxHandlers == 2
MaxItems == 2
FewEvents == 1

\* the run in which the informer is shut down
ShutEvents == 1
ShutHandlers == 2
ShutItems == 1

\* CleanupDeletedNetworks finds at most MaxSwitches logical switches and
\* MaxRouters logical routers of secondary networks
MaxSwitches == 2
MaxRouters == 1

\* the NAD supervisor asks the manager for at most MaxControllers controllers
MaxControllers == 3
\* the queue maps getNewQueueNum is tried on: up to MaxQueueNum queues of up
\* to MaxQueueLen events
MaxQueueNum == 3
\* the registration runs: events delivered (none), handlers registered
RegEvents == 0
RegHandlers == 2
MaxQueueLen == 3
\* the resource types asked about in one run
MaxQueries == 2

\* the zone poll of Start gives up after MaxPolls evaluations of its condition
\* (300 s at one every 500 ms in the source)
MaxPolls == 3

Runs == {[events |-> MaxEvents, handlers |-> FewHandlers, items |-> FewItems, stop |-> FALSE],
         [events |-> FewEvents, handlers |-> MaxHandlers, items |-> MaxItems, stop |-> TRUE]}
Max(a, b) == IF a > b THEN a ELSE b

\* lowest handler priority looped over by the fan-out (0 is the highest)
minHandlerPriority == 1

\* secondary networks, and the values of the topology external ID
NetNames == {"n1", "n2"}
Layer3Topology == "layer3"
Layer2Topology == "layer2"
LocalnetTopology == "localnet"
Topologies == {Layer3Topology, Layer2Topology, LocalnetTopology, "other"}

Keys == {"a", "b"}
Queues == 0 .. (NumQueues - 1)
HandlerIds == 1 .. Max(Max(MaxHandlers, FewHandlers), ShutHandlers)
Priorities == 0 .. minHandlerPriority

\* ------------------------------------------------------------ objects
\* The informer's declared type is "T"; "X" is any other runtime type and
\* "Tomb" is cache.DeletedFinalStateUnknown, whose Obj has type `inner`.
oType == "T"

Obj(t, k, u) == [t |-> t, key |-> k, uid |-> u, inner |-> "none"]
Tomb(o) == [t |-> "Tomb", key |-> o.key, uid |-> o.uid, inner |-> o.t]
NoObj == [t |-> "nil", key |-> "-", uid |-> 0, inner |-> "none"]

TypeOf(v) == v.t
GetUID(o) == o.uid

TypedObjs == {Obj(oType, k, 1) : k \in Keys}
ObjA == Obj(oType, "a", 1)
OtherObj == Obj("X", "a", 1)

\* an object named by the cache: declared type, or another runtime type
AddInputs == TypedObjs \cup {OtherObj}
\* old and new object of an update share the key; the uid may change
UpdateInputs ==
    {<<ObjA, Obj(oType, "a", u)>> : u \in {1, 2}} \cup {<<ObjA, OtherObj>>}
\* a delete names the object, a tombstone of it, or something of another type
\* (the tombstone holds a later incarnation of the object, uid 2)
ObjA2 == Obj(oType, "a", 2)
DeleteInputs == {ObjA, Tomb(ObjA2), OtherObj, Tomb(OtherObj)}

\* the snapshots addHandler may be given: distinct cached objects, in any order
RECURSIVE SeqsOver(_, _)
SeqsOver(S, n) ==
    IF n = 0 THEN {<<>>}
    ELSE LET shorter == SeqsOver(S, n - 1)
         IN shorter \cup {Append(s, x) : s \in {t \in shorter : Len(t) = n - 1}, x \in S}
Range(s) == {s[i] : i \in 1 .. Len(s)}
Snapshots ==
    {s \in SeqsOver(TypedObjs, Max(MaxItems, FewItems)) : Cardinality(Range(s)) = Len(s)}

\* getObjectMeta: the (namespace, name) of an object of the declared type,
\* an error for any other runtime type
getObjectMetaFails(obj) == TypeOf(obj) # oType

\* ensureObjectOnDelete: the object itself when it has the declared type,
\* the tombstone's object when that has the declared type, else an error
\* (faulty variant: the type of the tombstone's object is not checked)
ensureObjectOnDeleteBad(obj) ==
    [err |-> TypeOf(obj) # oType /\ TypeOf(obj) # "Tomb",
     obj |-> IF TypeOf(obj) = "Tomb" THEN Obj(obj.inner, obj.key, obj.uid) ELSE obj]
ensureObjectOnDelete(obj) ==
    IF TypeOf(obj) = oType THEN [err |-> FALSE, obj |-> obj]
    ELSE IF TypeOf(obj) # "Tomb" THEN [err |-> TRUE, obj |-> NoObj]
    ELSE LET inner == Obj(obj.inner, obj.key, obj.uid)
         IN IF TypeOf(inner) # oType THEN [err |-> TRUE, obj |-> NoObj]
            ELSE [err |-> FALSE, obj |-> inner]

\* ---------------------------------------------------------- queue map
\* getNewQueueNum: scan the ring from startIdx, keep the first queue whose
\* length is strictly lower than the lowest seen
\* len(qm.queues)
numEventQueues(qs) == Cardinality(DOMAIN qs)
RECURSIVE ScanQueues(_, _, _, _, _)
ScanQueues(qs, startIdx, j, queueIdx, lowestNum) ==
    IF j >= numEventQueues(qs) THEN queueIdx
    ELSE LET tryQueue == (startIdx + j) % numEventQueues(qs)
             num == Len(qs[tryQueue])
         IN IF num < lowestNum
            THEN ScanQueues(qs, startIdx, j + 1, tryQueue, num)
            ELSE ScanQueues(qs, startIdx, j + 1, queueIdx, lowestNum)
getNewQueueNum(qs, startIdx) ==
    ScanQueues(qs, startIdx, 0, startIdx, Len(qs[startIdx]))
\* cryptorand.Intn(n): the values it may return, a number in [0, n); there is
\* none for n <= 0, where the call panics
Intn(n) == 0 .. (n - 1)
\* cryptorand.Intn(numEventQueues - 1): a start index in [0, numEventQueues - 1)
StartIdxs == Intn(NumQueues - 1)

\* getQueueMapEntry on entries `ents` for key k: the entries afterwards
\* (faulty variants: the refcount compared with 1 before it is incremented;
\* a fresh queue on every call)
getQueueMapEntryLateCheck(ents, qs, k, startIdx) ==
    IF k \in DOMAIN ents
    THEN IF ents[k].refcount = 1
         THEN [ents EXCEPT ![k] = [queue |-> getNewQueueNum(qs, startIdx), refcount |-> 2]]
         ELSE [ents EXCEPT ![k].refcount = @ + 1]
    ELSE [x \in DOMAIN ents \cup {k} |->
            IF x = k THEN [queue |-> getNewQueueNum(qs, startIdx), refcount |-> 1]
            ELSE ents[x]]
getQueueMapEntryRebalance(ents, qs, k, startIdx) ==
    [x \in DOMAIN ents \cup {k} |->
        IF x # k THEN ents[x]
        ELSE [queue |-> getNewQueueNum(qs, startIdx),
              refcount |-> IF k \in DOMAIN ents THEN ents[k].refcount + 1 ELSE 1]]
\* (faulty variant: the refcount of an entry found is not incremented)
getQueueMapEntryNoRef(ents, qs, k, startIdx) ==
    IF k \in DOMAIN ents THEN ents
    ELSE [x \in DOMAIN ents \cup {k} |->
            IF x = k THEN [queue |-> getNewQueueNum(qs, startIdx), refcount |-> 1]
            ELSE ents[x]]
\* (faulty variant: a fresh queue also when one event of the key is in flight)
getQueueMapEntryRebalanceBusy(ents, qs, k, startIdx) ==
    IF k \in DOMAIN ents
    THEN IF ents[k].refcount + 1 <= 2
         THEN [ents EXCEPT ![k] = [queue |-> getNewQueueNum(qs, startIdx),
                                   refcount |-> ents[k].refcount + 1]]
         ELSE [ents EXCEPT ![k].refcount = @ + 1]
    ELSE [x \in DOMAIN ents \cup {k} |->
            IF x = k THEN [queue |-> getNewQueueNum(qs, startIdx), refcount |-> 1]
            ELSE ents[x]]
getQueueMapEntry(ents, qs, k, startIdx) ==
    IF k \in DOMAIN ents
    THEN IF ents[k].refcount + 1 = 1
         THEN [ents EXCEPT ![k] = [queue |-> getNewQueueNum(qs, startIdx), refcount |-> 1]]
         ELSE [ents EXCEPT ![k].refcount = @ + 1]
    ELSE [x \in DOMAIN ents \cup {k} |->
            IF x = k THEN [queue |-> getNewQueueNum(qs, startIdx), refcount |-> 1]
            ELSE ents[x]]

\* releaseQueueMapEntry: decrement; a delete removes the entry at refcount <= 0
\* (faulty variant: the entry is removed by any release that reaches 0)
releaseQueueMapEntryEager(ents, k, del) ==
    IF k \notin DOMAIN ents THEN ents
    ELSE IF ents[k].refcount - 1 <= 0
         THEN [x \in DOMAIN ents \ {k} |-> ents[x]]
         ELSE [ents EXCEPT ![k].refcount = @ - 1]
\* (faulty variant: a delete removes the entry whatever its refcount)
releaseQueueMapEntryDrop(ents, k, del) ==
    IF k \notin DOMAIN ents THEN ents
    ELSE IF ~del THEN [ents EXCEPT ![k].refcount = @ - 1]
    ELSE [x \in DOMAIN ents \ {k} |-> ents[x]]
releaseQueueMapEntry(ents, k, del) ==
    IF k \notin DOMAIN ents THEN ents
    ELSE IF ~del THEN [ents EXCEPT ![k].refcount = @ - 1]
    ELSE IF ents[k].refcount - 1 <= 0
         THEN [x \in DOMAIN ents \ {k} |-> ents[x]]
         ELSE [ents EXCEPT ![k].refcount = @ - 1]

NoEntries == [x \in {} |-> [queue |-> 0, refcount |-> 0]]
EmptyQueues == [q \in Queues |-> <<>>]

\* ------------------------------------------------ object-IDs catalog
\* dbObjType
addressSet == 0
acl == 1
\* the external ID keys; ObjectNameKey is declared with the ObjectIDsType
\* itself, next to newObjectIDsType
ObjectNameKey == "name"
PriorityKey == "priority"
PolicyDirectionKey == "direction"
GressIdxKey == "gress-index"
AddressSetIPFamilyKey == "ip-family"
TypeKey == "type"

\* newObjectIDsType(dbTable, ownerObjectType, keys)
newObjectIDsType(dbTable, ownerObjectType, keys) ==
    [dbTable |-> dbTable, ownerObjectType |-> ownerObjectType, keys |-> keys]

\* the ObjectIDsTypes of the package, in the order of their declaration,
\* as they are once the package is initialised
\* (faulty variant: the cluster multicast ACLs reuse the owner of the
\* namespace multicast ACLs)
ObjectIDsTypesReusedOwner ==
    << newObjectIDsType(addressSet, "EgressFirewallDNS", <<ObjectNameKey, AddressSetIPFamilyKey>>),
       newObjectIDsType(addressSet, "HybridNodeRoute", <<ObjectNameKey, AddressSetIPFamilyKey>>),
       newObjectIDsType(addressSet, "EgressQoS",
                        <<ObjectNameKey, PriorityKey, AddressSetIPFamilyKey>>),
       newObjectIDsType(addressSet, "PodSelector", <<ObjectNameKey, AddressSetIPFamilyKey>>),
       newObjectIDsType(addressSet, "NetworkPolicy",
                        <<ObjectNameKey, PolicyDirectionKey, GressIdxKey, AddressSetIPFamilyKey>>),
       newObjectIDsType(addressSet, "Namespace", <<ObjectNameKey, AddressSetIPFamilyKey>>),
       newObjectIDsType(addressSet, "EgressIP", <<ObjectNameKey, AddressSetIPFamilyKey>>),
       newObjectIDsType(addressSet, "EgressService", <<ObjectNameKey, AddressSetIPFamilyKey>>),
       newObjectIDsType(acl, "NetpolDefault", <<ObjectNameKey, PolicyDirectionKey>>),
       newObjectIDsType(acl, "MulticastNS", <<ObjectNameKey, PolicyDirectionKey>>),
       newObjectIDsType(acl, "MulticastNS", <<TypeKey, PolicyDirectionKey>>) >>
ObjectIDsTypes ==
    << newObjectIDsType(addressSet, "EgressFirewallDNS", <<ObjectNameKey, AddressSetIPFamilyKey>>),
       newObjectIDsType(addressSet, "HybridNodeRoute", <<ObjectNameKey, AddressSetIPFamilyKey>>),
       newObjectIDsType(addressSet, "EgressQoS",
                        <<ObjectNameKey, PriorityKey, AddressSetIPFamilyKey>>),
       newObjectIDsType(addressSet, "PodSelector", <<ObjectNameKey, AddressSetIPFamilyKey>>),
       newObjectIDsType(addressSet, "NetworkPolicy",
                        <<ObjectNameKey, PolicyDirectionKey, GressIdxKey, AddressSetIPFamilyKey>>),
       newObjectIDsType(addressSet, "Namespace", <<ObjectNameKey, AddressSetIPFamilyKey>>),
       newObjectIDsType(addressSet, "EgressIP", <<ObjectNameKey, AddressSetIPFamilyKey>>),
       newObjectIDsType(addressSet, "EgressService", <<ObjectNameKey, AddressSetIPFamilyKey>>),
       newObjectIDsType(acl, "NetpolDefault", <<ObjectNameKey, PolicyDirectionKey>>),
       newObjectIDsType(acl, "MulticastNS", <<ObjectNameKey, PolicyDirectionKey>>),
       newObjectIDsType(acl, "MulticastCluster", <<TypeKey, PolicyDirectionKey>>) >>

\* ------------------------------------------- base event handler
\* the resource types of package factory the handler is asked about
ResourceTypes ==
    {"PodType", "NodeType", "ServiceType", "NamespaceType", "PolicyType",
     "EgressFirewallType", "EgressIPType", "EgressIPNamespaceType",
     "EgressIPPodType", "EgressNodeType", "EgressFwNodeType",
     "CloudPrivateIPConfigType", "LocalPodSelectorType",
     "MultiNetworkPolicyType", "EndpointSliceType", "EgressQoSType",
     "NetworkAttachmentDefinitionType", "EgressServiceType"}

\* hasResourceAnUpdateFunc: the type has a dedicated update function; when
\* not, an update is a delete of the old object followed by an add of the new
\* (faulty variant: "MultiNetworkPolicyType" is missing from the switch)
hasResourceAnUpdateFuncNoMnp(objType) ==
    objType \in {"PodType", "NodeType", "EgressIPType", "EgressIPNamespaceType", "EgressIPPodType",
                 "EgressNodeType", "EgressFwNodeType", "CloudPrivateIPConfigType",
                 "LocalPodSelectorType", "NamespaceType"}
hasResourceAnUpdateFunc(objType) ==
    objType \in {"PodType", "NodeType", "EgressIPType", "EgressIPNamespaceType", "EgressIPPodType",
                 "EgressNodeType", "EgressFwNodeType", "CloudPrivateIPConfigType",
                 "LocalPodSelectorType", "NamespaceType", "MultiNetworkPolicyType"}

\* needsUpdateDuringRetry: the type invokes update during iterate retry
needsUpdateDuringRetry(objType) ==
    objType \in {"EgressNodeType", "EgressFwNodeType", "EgressIPType", "EgressIPPodType",
                 "EgressIPNamespaceType", "CloudPrivateIPConfigType", "MultiNetworkPolicyType"}

\* -------------------------------------------------------------- state
VARIABLES
    lim,        \* the bounds of this run: one of Runs
    mode,       \* "federated" (newInformer) or "queued" (newQueuedInformer)
    stopped,    \* stopChan is closed
    panicked,   \* a goroutine panicked: the process is gone
    handlers,   \* every Handler created so far, and whether i.handlers holds it
    rw,         \* the informer's RWMutex
    entries,    \* i.queueMap.entries
    queues,     \* i.queueMap.queues
    watch,      \* the watch thread, which runs the cache callbacks
    workers,    \* the processEvents goroutines of i.queueMap
    adder,      \* the addHandler call in progress, if any
    aEntries,   \* addsMap.entries of that call
    aQueues,    \* addsMap.queues
    aClosed,    \* addsMap.shutdown has closed the channels
    aWorkers,   \* the processEvents goroutines of addsMap
    delivered,  \* number of cache callbacks invoked so far
    lastDone,   \* per key, the kind of the last event that released its entry
    shut,       \* how far informer.shutdown has got
    cm,         \* the network controller manager's Start, with its environment
    reaper,     \* CleanupDeletedNetworks, with its inputs
    catalog,    \* the ObjectIDsTypes declared by package libovsdbops
    queried     \* the resource types the retry logic has asked about, with the answers

vars == <<lim, mode, stopped, panicked, handlers, rw, entries, queues, watch, workers,
          adder, aEntries, aQueues, aClosed, aWorkers, delivered, lastDone, shut, cm, reaper,
          catalog, queried>>
\* what the informer's own steps, shutdown apart, leave alone
others == <<shut, cm, reaper, catalog, queried>>

NoEv == [seq |-> 0, kind |-> "none", obj |-> NoObj, oldObj |-> NoObj]
NoCb == [h |-> 0, kind |-> "none", obj |-> NoObj, oldObj |-> NoObj]
\* passed: the wrapper of the current handler has loaded handlerAlive and has
\* not called the base callback yet
IdleRunner == [pc |-> "idle", ev |-> NoEv, todo |-> <<>>, calls |-> 0, passed |-> FALSE,
               cb |-> NoCb, q |-> 0]
IdleReplay == [pc |-> "idle", ev |-> NoEv, cb |-> NoCb]
IdleAdder == [pc |-> "idle", h |-> 0, items |-> <<>>, q |-> 0, cb |-> NoCb,
              snapshot |-> <<>>, done |-> {}]
NoHandler == [created |-> FALSE, priority |-> 0, tombstone |-> "alive",
              inMap |-> FALSE, excise |-> "none"]

\* the watch thread is runner 0, the worker of queue q is runner q + 1
WatchId == 0
WorkerId(w) == w + 1

\* the manager as NewNetworkControllerManager returns it, and
\* CleanupDeletedNetworks before it is called. zones and fails are the
\* environment of Start: the zone GetNBZone reads at each poll and the steps
\* that return an error when they are executed.
\* enableInterconnect is config.OVNKubernetesFeature.EnableInterconnect,
\* cnciFails says that newCommonNetworkControllerInfo returns an error, and
\* controllers are the results of the NewNetworkController calls so far.
IdleManager == [pc |-> "idle", nadController |-> FALSE, zones |-> <<>>, fails |-> {},
                polls |-> 0, log |-> <<>>, svcTemplateSupport |-> FALSE,
                failed |-> "none", result |-> "none",
                enableInterconnect |-> FALSE, cnciFails |-> FALSE, controllers |-> <<>>]
\* running is the set of network names of allControllers; switches and
\* routers are what the northbound database holds; enumFails, cnciFails and
\* cleanupFails are the calls that return an error. stale is
\* staleNetworkControllers, ls and lr what the two loops have still to visit
\* and calls the Cleanup calls made so far.
IdleReaper == [pc |-> "idle", running |-> {}, switches |-> <<>>, routers |-> <<>>,
               enumFails |-> "none", cnciFails |-> FALSE, cleanupFails |-> {},
               ls |-> <<>>, lr |-> <<>>, stale |-> [n \in NetNames |-> "none"],
               calls |-> <<>>, result |-> "none"]

\* the informer as newInformer / newQueuedInformer return it, in a run of
\* bounds `run`
InformerInit(run) ==
    /\ lim = run
    /\ mode \in {"federated", "queued"}
    /\ shut = "idle"
    /\ stopped = FALSE
    /\ panicked = FALSE
    /\ handlers = [h \in HandlerIds |-> NoHandler]
    /\ rw = [readers |-> {}, writer |-> FALSE]
    /\ entries = NoEntries
    /\ queues = EmptyQueues
    /\ watch = IdleRunner
    /\ workers = [w \in Queues |-> IdleRunner]
    /\ adder = IdleAdder
    /\ aEntries = NoEntries
    /\ aQueues = EmptyQueues
    /\ aClosed = FALSE
    /\ aWorkers = [w \in Queues |-> IdleReplay]
    /\ delivered = 0
    /\ lastDone = [k \in Keys |-> "none"]

Init ==
    /\ catalog = ObjectIDsTypes
    /\ queried = <<>>
    /\ \E run \in Runs : InformerInit(run)
    /\ cm = IdleManager
    /\ reaper = IdleReaper

\* ------------------------------------------------------------ Handler
handlerAlive == "alive"
handlerDead == "dead"

OnAdd(obj) == [kind |-> "add", obj |-> obj, oldObj |-> NoObj]
OnUpdate(oldObj, newObj) == [kind |-> "update", obj |-> newObj, oldObj |-> oldObj]
OnDelete(obj) == [kind |-> "delete", obj |-> obj, oldObj |-> NoObj]

\* Handler.OnAdd / OnUpdate / OnDelete, first statement: the tombstone is
\* loaded and compared with handlerAlive
LoadTombstone(h) == handlers[h].tombstone = handlerAlive
\* second statement: h.base.OnAdd / OnUpdate / OnDelete is called
BaseCall(h, call) == [h |-> h, kind |-> call.kind, obj |-> call.obj, oldObj |-> call.oldObj]
\* the two statements where no kill can come between them (the handler has
\* not been returned by addHandler yet): the base callback that starts, if any
HandlerCall(h, call) == IF LoadTombstone(h) THEN BaseCall(h, call) ELSE NoCb

\* Handler.kill: compare-and-swap alive -> dead
\* (faulty variant: a second kill swaps the flag back)
killRevive(h) ==
    [handlers EXCEPT ![h].tombstone = IF @ = handlerAlive THEN handlerDead ELSE handlerAlive]
kill(h) ==
    [handlers EXCEPT ![h].tombstone = IF @ = handlerAlive THEN handlerDead ELSE @]

\* ------------------------------------------------------------ fan-out
InMap == {h \in HandlerIds : handlers[h].inMap}

\* the orders in which a loop over i.handlers[priority], priority by priority,
\* may visit the handlers (Go iterates a map in no fixed order)
Ascending(s) == \A i, j \in 1 .. Len(s) :
    i < j => handlers[s[i]].priority <= handlers[s[j]].priority
Descending(s) == \A i, j \in 1 .. Len(s) :
    i < j => handlers[s[i]].priority >= handlers[s[j]].priority
Visits == {s \in SeqsOver(InMap, Cardinality(InMap)) :
              Len(s) = Cardinality(InMap) /\ Range(s) = InMap}
forEachHandler == {s \in Visits : Ascending(s)}
forEachHandlerReversed == {s \in Visits : Descending(s)}

\* the calls the event's closure makes on one handler
\* (faulty variant: the uids are not compared)
ClosureCallsNoReplace(ev) ==
    IF ev.kind = "add" THEN <<OnAdd(ev.obj)>>
    ELSE IF ev.kind = "delete" THEN <<OnDelete(ev.obj)>>
    ELSE <<OnUpdate(ev.oldObj, ev.obj)>>
ClosureCalls(ev) ==
    IF ev.kind = "add" THEN <<OnAdd(ev.obj)>>
    ELSE IF ev.kind = "delete" THEN <<OnDelete(ev.obj)>>
    ELSE IF GetUID(ev.oldObj) # GetUID(ev.obj)
         THEN <<OnDelete(ev.oldObj), OnAdd(ev.obj)>>
         ELSE <<OnUpdate(ev.oldObj, ev.obj)>>

\* the order the event's closure visits the handlers in
\* (faulty variant: a delete event is fanned out like an add)
FanOrdersAscending(ev) == forEachHandler
FanOrders(ev) ==
    IF ev.kind = "delete" THEN forEachHandlerReversed ELSE forEachHandler

\* the runner after one call on the current handler is over
AfterCall(r) ==
    IF r.calls + 1 < Len(ClosureCalls(r.ev))
    THEN [r EXCEPT !.cb = NoCb, !.calls = @ + 1]
    ELSE IF Len(r.todo) > 1
         THEN [r EXCEPT !.cb = NoCb, !.calls = 0, !.todo = Tail(@)]
         ELSE [r EXCEPT !.cb = NoCb, !.calls = 0, !.todo = <<>>, !.pc = "done"]

\* the runner enters the wrapper of its next call: the tombstone is loaded; a
\* dead handler is skipped
MakeLoad(r) ==
    IF LoadTombstone(Head(r.todo)) THEN [r EXCEPT !.passed = TRUE] ELSE AfterCall(r)
\* the wrapper found the handler alive: the base callback starts, whatever
\* the tombstone is by now
MakeCall(r) ==
    [r EXCEPT !.passed = FALSE,
              !.cb = BaseCall(Head(r.todo), ClosureCalls(r.ev)[r.calls + 1])]

\* RLock taken and the loop entered: `order` is the visiting order
EnterLoop(r, order) ==
    IF order = <<>> THEN [r EXCEPT !.pc = "done"]
    ELSE [r EXCEPT !.pc = "fan", !.todo = order, !.calls = 0]

RLocked(id, r) == IF r.pc = "fan" THEN rw.readers \cup {id} ELSE rw.readers \ {id}
WriteLockFree == rw.readers = {} /\ ~rw.writer

addVars == <<adder, aEntries, aQueues, aClosed, aWorkers>>

NewEvent(kind, oldObj, obj) ==
    [seq |-> delivered + 1, kind |-> kind, obj |-> obj, oldObj |-> oldObj]

\* --------------------------------------- cache callbacks, queued mode
\* enqueueEvent up to the channel send: getQueueMapEntry, then entry.queue,
\* which dereferences the nil entry returned for an object without meta
enqueueEvent(ev) ==
    IF getObjectMetaFails(ev.obj)
    THEN /\ panicked' = TRUE
         /\ UNCHANGED <<entries, watch>>
    ELSE \E startIdx \in StartIdxs :
            LET k == ev.obj.key
                ents == getQueueMapEntry(entries, queues, k, startIdx)
            IN /\ entries' = ents
               /\ watch' = [IdleRunner EXCEPT !.pc = "send", !.ev = ev, !.q = ents[k].queue]
               /\ UNCHANGED panicked

QueuedAddFunc(obj) ==
    /\ ~panicked
    /\ mode = "queued" /\ watch.pc = "idle" /\ delivered < lim.events
    /\ delivered' = delivered + 1
    /\ enqueueEvent(NewEvent("add", NoObj, obj))
    /\ UNCHANGED <<others, lim, mode, stopped, handlers, rw, queues, workers, addVars, lastDone>>

QueuedUpdateFunc(oldObj, newObj) ==
    /\ ~panicked
    /\ mode = "queued" /\ watch.pc = "idle" /\ delivered < lim.events
    /\ delivered' = delivered + 1
    /\ enqueueEvent(NewEvent("update", oldObj, newObj))
    /\ UNCHANGED <<others, lim, mode, stopped, handlers, rw, queues, workers, addVars, lastDone>>

QueuedDeleteFunc(obj) ==
    /\ ~panicked
    /\ mode = "queued" /\ watch.pc = "idle" /\ delivered < lim.events
    /\ delivered' = delivered + 1
    /\ LET real == ensureObjectOnDelete(obj)
       IN IF real.err
          THEN UNCHANGED <<entries, watch, panicked>>
          ELSE enqueueEvent(NewEvent("delete", NoObj, real.obj))
    /\ UNCHANGED <<others, lim, mode, stopped, handlers, rw, queues, workers, addVars, lastDone>>

\* (faulty variant: the send does not block, a full channel loses the event)
WatchSendLossy ==
    /\ ~panicked
    /\ mode = "queued" /\ watch.pc = "send"
    /\ queues' = [queues EXCEPT ![watch.q] =
                     IF Len(@) < QueueCap THEN Append(@, watch.ev) ELSE @]
    /\ watch' = IdleRunner
    /\ UNCHANGED <<others, lim, mode, stopped, panicked, handlers, rw, entries, workers, addVars,
                   delivered, lastDone>>
\* the channel send of enqueueEvent: blocks while the channel is full
WatchSend ==
    /\ ~panicked
    /\ mode = "queued" /\ watch.pc = "send"
    /\ Len(queues[watch.q]) < QueueCap
    /\ queues' = [queues EXCEPT ![watch.q] = Append(@, watch.ev)]
    /\ watch' = IdleRunner
    /\ UNCHANGED <<others, lim, mode, stopped, panicked, handlers, rw, entries, workers, addVars,
                   delivered, lastDone>>

\* ------------------------------------ cache callbacks, federated mode
FedAddFunc(obj) ==
    /\ ~panicked
    /\ mode = "federated" /\ watch.pc = "idle" /\ delivered < lim.events
    /\ delivered' = delivered + 1
    /\ watch' = [IdleRunner EXCEPT !.pc = "lock", !.ev = NewEvent("add", NoObj, obj)]
    /\ UNCHANGED <<others, lim, mode, stopped, panicked, handlers, rw, entries, queues, workers,
                   addVars, lastDone>>

FedUpdateFunc(oldObj, newObj) ==
    /\ ~panicked
    /\ mode = "federated" /\ watch.pc = "idle" /\ delivered < lim.events
    /\ delivered' = delivered + 1
    /\ watch' = [IdleRunner EXCEPT !.pc = "lock", !.ev = NewEvent("update", oldObj, newObj)]
    /\ UNCHANGED <<others, lim, mode, stopped, panicked, handlers, rw, entries, queues, workers,
                   addVars, lastDone>>

FedDeleteFunc(obj) ==
    /\ ~panicked
    /\ mode = "federated" /\ watch.pc = "idle" /\ delivered < lim.events
    /\ delivered' = delivered + 1
    /\ LET real == ensureObjectOnDelete(obj)
       IN IF real.err
          THEN UNCHANGED watch
          ELSE watch' = [IdleRunner EXCEPT !.pc = "lock",
                                           !.ev = NewEvent("delete", NoObj, real.obj)]
    /\ UNCHANGED <<others, lim, mode, stopped, panicked, handlers, rw, entries, queues, workers,
                   addVars, lastDone>>

\* forEachHandler / forEachHandlerReversed: RLock, then the type check
TypeCheck(obj) == TypeOf(obj) = oType

WatchDone(r) == IF r.pc = "done" THEN IdleRunner ELSE r

WatchRLock ==
    /\ ~panicked
    /\ mode = "federated" /\ watch.pc = "lock" /\ ~rw.writer
    /\ IF ~TypeCheck(watch.ev.obj)
       THEN watch' = IdleRunner /\ UNCHANGED rw
       ELSE \E order \in FanOrders(watch.ev) :
               /\ watch' = WatchDone(EnterLoop(watch, order))
               /\ rw' = [rw EXCEPT !.readers = RLocked(WatchId, watch')]
    /\ UNCHANGED <<others, lim, mode, stopped, panicked, handlers, entries, queues, workers, addVars,
                   delivered, lastDone>>

WatchLoad ==
    /\ ~panicked
    /\ mode = "federated" /\ watch.pc = "fan" /\ watch.cb = NoCb /\ ~watch.passed
    /\ watch' = WatchDone(MakeLoad(watch))
    /\ rw' = [rw EXCEPT !.readers = RLocked(WatchId, watch')]
    /\ UNCHANGED <<others, lim, mode, stopped, panicked, handlers, entries, queues, workers, addVars,
                   delivered, lastDone>>

WatchCall ==
    /\ ~panicked
    /\ mode = "federated" /\ watch.pc = "fan" /\ watch.passed
    /\ watch' = MakeCall(watch)
    /\ rw' = [rw EXCEPT !.readers = RLocked(WatchId, watch')]
    /\ UNCHANGED <<others, lim, mode, stopped, panicked, handlers, entries, queues, workers, addVars,
                   delivered, lastDone>>

WatchReturn ==
    /\ ~panicked
    /\ mode = "federated" /\ watch.pc = "fan" /\ watch.cb # NoCb
    /\ watch' = WatchDone(AfterCall(watch))
    /\ rw' = [rw EXCEPT !.readers = RLocked(WatchId, watch')]
    /\ UNCHANGED <<others, lim, mode, stopped, panicked, handlers, entries, queues, workers, addVars,
                   delivered, lastDone>>

\* ------------------------------------------- processEvents, queue map
WorkerDone(r) == IF r.pc = "done" THEN [r EXCEPT !.pc = "release"] ELSE r

\* select: an event is received and its process closure is called
WorkerTake(w) ==
    /\ ~panicked
    /\ mode = "queued" /\ workers[w].pc = "idle" /\ queues[w] # <<>>
    /\ workers' = [workers EXCEPT ![w] = [IdleRunner EXCEPT !.pc = "lock", !.ev = Head(queues[w])]]
    /\ queues' = [queues EXCEPT ![w] = Tail(@)]
    /\ UNCHANGED <<others, lim, mode, stopped, panicked, handlers, rw, entries, watch, addVars,
                   delivered, lastDone>>

\* select: stopChan is closed
WorkerExit(w) ==
    /\ ~panicked
    /\ mode = "queued" /\ workers[w].pc = "idle" /\ stopped
    /\ workers' = [workers EXCEPT ![w].pc = "exited"]
    /\ UNCHANGED <<others, lim, mode, stopped, panicked, handlers, rw, entries, queues, watch, addVars,
                   delivered, lastDone>>

\* forEachQueuedHandler / forEachQueuedHandlerReversed: RLock, no type check
WorkerRLock(w) ==
    /\ ~panicked
    /\ workers[w].pc = "lock" /\ ~rw.writer
    /\ \E order \in FanOrders(workers[w].ev) :
          /\ workers' = [workers EXCEPT ![w] = WorkerDone(EnterLoop(@, order))]
          /\ rw' = [rw EXCEPT !.readers = RLocked(WorkerId(w), workers'[w])]
    /\ UNCHANGED <<others, lim, mode, stopped, panicked, handlers, entries, queues, watch, addVars,
                   delivered, lastDone>>

WorkerLoad(w) ==
    /\ ~panicked
    /\ workers[w].pc = "fan" /\ workers[w].cb = NoCb /\ ~workers[w].passed
    /\ workers' = [workers EXCEPT ![w] = WorkerDone(MakeLoad(@))]
    /\ rw' = [rw EXCEPT !.readers = RLocked(WorkerId(w), workers'[w])]
    /\ UNCHANGED <<others, lim, mode, stopped, panicked, handlers, entries, queues, watch, addVars,
                   delivered, lastDone>>

WorkerCall(w) ==
    /\ ~panicked
    /\ workers[w].pc = "fan" /\ workers[w].passed
    /\ workers' = [workers EXCEPT ![w] = MakeCall(@)]
    /\ rw' = [rw EXCEPT !.readers = RLocked(WorkerId(w), workers'[w])]
    /\ UNCHANGED <<others, lim, mode, stopped, panicked, handlers, entries, queues, watch, addVars,
                   delivered, lastDone>>

WorkerReturn(w) ==
    /\ ~panicked
    /\ workers[w].pc = "fan" /\ workers[w].cb # NoCb
    /\ workers' = [workers EXCEPT ![w] = WorkerDone(AfterCall(@))]
    /\ rw' = [rw EXCEPT !.readers = RLocked(WorkerId(w), workers'[w])]
    /\ UNCHANGED <<others, lim, mode, stopped, panicked, handlers, entries, queues, watch, addVars,
                   delivered, lastDone>>

\* the closure's last step: releaseQueueMapEntry(key, entry, isDel)
WorkerRelease(w) ==
    /\ ~panicked
    /\ workers[w].pc = "release"
    /\ LET ev == workers[w].ev
       IN /\ entries' = releaseQueueMapEntry(entries, ev.obj.key, ev.kind = "delete")
          /\ lastDone' = [lastDone EXCEPT ![ev.obj.key] = ev.kind]
    /\ workers' = [workers EXCEPT ![w] = IdleRunner]
    /\ UNCHANGED <<others, lim, mode, stopped, panicked, handlers, rw, queues, watch, addVars,
                   delivered>>

\* --------------------------------------------------------- addHandler
\* the caller of addHandler holds the informer's write lock for the call;
\* addHandler itself does not look at whether shutdown has run
CallerLock == WriteLockFree

\* addHandler up to initialAddFunc: the Handler is built alive; in queued mode
\* initialAddFunc builds addsMap and starts its workers
AddHandlerBegin(h, priority, items) ==
    /\ ~panicked
    /\ h <= lim.handlers /\ Len(items) <= lim.items
    /\ adder.pc = "idle" /\ ~handlers[h].created
    /\ \A g \in HandlerIds : g < h => handlers[g].created
    /\ CallerLock
    /\ rw' = [rw EXCEPT !.writer = TRUE]
    /\ handlers' = [handlers EXCEPT ![h] =
          [created |-> TRUE, priority |-> priority, tombstone |-> handlerAlive,
           inMap |-> FALSE, excise |-> "none"]]
    /\ adder' = [IdleAdder EXCEPT !.pc = IF mode = "queued" THEN "enqueue" ELSE "loop",
                                  !.h = h, !.items = items, !.snapshot = items]
    /\ aEntries' = NoEntries /\ aQueues' = EmptyQueues /\ aClosed' = FALSE
    /\ aWorkers' = [w \in Queues |-> IdleReplay]
    /\ UNCHANGED <<others, lim, mode, stopped, panicked, entries, queues, watch, workers,
                   delivered, lastDone>>

\* federated initialAddFunc: h.OnAdd(item) for each item, on the caller's thread
InitialAddCall ==
    /\ ~panicked
    /\ adder.pc = "loop" /\ adder.items # <<>> /\ adder.cb = NoCb
    /\ LET c == HandlerCall(adder.h, OnAdd(Head(adder.items)))
       IN adder' = IF c # NoCb THEN [adder EXCEPT !.cb = c]
                   ELSE [adder EXCEPT !.items = Tail(@)]
    /\ UNCHANGED <<others, lim, mode, stopped, panicked, handlers, rw, entries, queues, watch, workers,
                   aEntries, aQueues, aClosed, aWorkers, delivered, lastDone>>

InitialAddReturn ==
    /\ ~panicked
    /\ adder.pc = "loop" /\ adder.cb # NoCb
    /\ adder' = [adder EXCEPT !.cb = NoCb, !.items = Tail(@),
                              !.done = @ \cup {adder.cb.obj.key}]
    /\ UNCHANGED <<others, lim, mode, stopped, panicked, handlers, rw, entries, queues, watch, workers,
                   aEntries, aQueues, aClosed, aWorkers, delivered, lastDone>>

\* queued initialAddFunc: addsMap.enqueueEvent(nil, obj, ...) up to the send
InitialAddRoute ==
    /\ ~panicked
    /\ adder.pc = "enqueue" /\ adder.items # <<>>
    /\ \E startIdx \in StartIdxs :
          LET k == Head(adder.items).key
              ents == getQueueMapEntry(aEntries, aQueues, k, startIdx)
          IN /\ aEntries' = ents
             /\ adder' = [adder EXCEPT !.pc = "send", !.q = ents[k].queue]
    /\ UNCHANGED <<others, lim, mode, stopped, panicked, handlers, rw, entries, queues, watch, workers,
                   aQueues, aClosed, aWorkers, delivered, lastDone>>

InitialAddSend ==
    /\ ~panicked
    /\ adder.pc = "send"
    /\ Len(aQueues[adder.q]) < QueueCap
    /\ aQueues' = [aQueues EXCEPT ![adder.q] =
                      Append(@, [NoEv EXCEPT !.kind = "add", !.obj = Head(adder.items)])]
    /\ adder' = [adder EXCEPT !.pc = "enqueue", !.items = Tail(@), !.q = 0]
    /\ UNCHANGED <<others, lim, mode, stopped, panicked, handlers, rw, entries, queues, watch, workers,
                   aEntries, aClosed, aWorkers, delivered, lastDone>>

\* addsMap.shutdown: every item is enqueued, the channels are closed
InitialAddShutdown ==
    /\ ~panicked
    /\ adder.pc = "enqueue" /\ adder.items = <<>>
    /\ aClosed' = TRUE
    /\ adder' = [adder EXCEPT !.pc = "wait"]
    /\ UNCHANGED <<others, lim, mode, stopped, panicked, handlers, rw, entries, queues, watch, workers,
                   aEntries, aQueues, aWorkers, delivered, lastDone>>

\* processEvents of addsMap: an item is received, its closure calls h.OnAdd
ReplayTake(w) ==
    /\ ~panicked
    /\ adder.pc \in {"enqueue", "send", "wait"}
    /\ aWorkers[w].pc = "idle" /\ aQueues[w] # <<>>
    /\ aQueues' = [aQueues EXCEPT ![w] = Tail(@)]
    /\ aWorkers' = [aWorkers EXCEPT ![w] =
          [pc |-> "run", ev |-> Head(aQueues[w]),
           cb |-> HandlerCall(adder.h, OnAdd(Head(aQueues[w]).obj))]]
    /\ UNCHANGED <<others, lim, mode, stopped, panicked, handlers, rw, entries, queues, watch, workers,
                   adder, aEntries, aClosed, delivered, lastDone>>

\* h.OnAdd returns and the closure releases the addsMap entry
ReplayReturn(w) ==
    /\ ~panicked
    /\ aWorkers[w].pc = "run"
    /\ aEntries' = releaseQueueMapEntry(aEntries, aWorkers[w].ev.obj.key, FALSE)
    /\ adder' = [adder EXCEPT !.done =
                    IF aWorkers[w].cb # NoCb THEN @ \cup {aWorkers[w].ev.obj.key} ELSE @]
    /\ aWorkers' = [aWorkers EXCEPT ![w] = IdleReplay]
    /\ UNCHANGED <<others, lim, mode, stopped, panicked, handlers, rw, entries, queues, watch, workers,
                   aQueues, aClosed, delivered, lastDone>>

\* processEvents of addsMap returns: its channel is closed and empty, or
\* stopChan is closed
ReplayExit(w) ==
    /\ ~panicked
    /\ adder.pc \in {"enqueue", "send", "wait"}
    /\ aWorkers[w].pc = "idle"
    /\ (aClosed /\ aQueues[w] = <<>>) \/ stopped
    /\ aWorkers' = [aWorkers EXCEPT ![w].pc = "exited"]
    /\ UNCHANGED <<others, lim, mode, stopped, panicked, handlers, rw, entries, queues, watch, workers,
                   adder, aEntries, aQueues, aClosed, delivered, lastDone>>

\* initialAddFunc has returned (addsWg.Wait in queued mode): the handler goes
\* into i.handlers[priority][id] and addHandler returns
InitialAddOver ==
    \/ adder.pc = "loop" /\ adder.items = <<>> /\ adder.cb = NoCb
    \/ adder.pc = "wait" /\ \A w \in Queues : aWorkers[w].pc = "exited"

AddHandlerReturn ==
    /\ ~panicked
    /\ InitialAddOver
    /\ handlers' = [handlers EXCEPT ![adder.h].inMap = TRUE]
    /\ rw' = [rw EXCEPT !.writer = FALSE]
    /\ adder' = IdleAdder
    /\ aEntries' = NoEntries /\ aQueues' = EmptyQueues /\ aClosed' = FALSE
    /\ aWorkers' = [w \in Queues |-> IdleReplay]
    /\ UNCHANGED <<others, lim, mode, stopped, panicked, entries, queues, watch, workers,
                   delivered, lastDone>>

\* ------------------------------------------------------ removeHandler
\* the handlers addHandler has returned to its caller
Returned(h) == handlers[h].created /\ adder.h # h

\* removeHandler(handler) on a handler addHandler returned: kill, and on
\* success the goroutine that will excise it is started
\* (faulty variant: the goroutine is started whatever kill returns)
RemoveHandlerAlwaysExcise(h) ==
    /\ ~panicked
    /\ Returned(h)
    /\ handlers' = [kill(h) EXCEPT ![h].excise = "spawned"]
    /\ UNCHANGED <<others, lim, mode, stopped, panicked, rw, entries, queues, watch, workers, addVars,
                   delivered, lastDone>>
RemoveHandler(h) ==
    /\ ~panicked
    /\ Returned(h)
    /\ handlers' = [kill(h) EXCEPT ![h].excise =
                       IF handlers[h].tombstone = handlerAlive THEN "spawned" ELSE @]
    /\ UNCHANGED <<others, lim, mode, stopped, panicked, rw, entries, queues, watch, workers, addVars,
                   delivered, lastDone>>

\* the goroutine of removeHandler: Lock, delete the id from every priority
ExciseHandler(h) ==
    /\ ~panicked
    /\ handlers[h].excise = "spawned"
    /\ WriteLockFree
    /\ handlers' = [handlers EXCEPT ![h].inMap = FALSE, ![h].excise = "done"]
    /\ UNCHANGED <<others, lim, mode, stopped, panicked, rw, entries, queues, watch, workers, addVars,
                   delivered, lastDone>>

\* --------------------------------------------------------------- stop
Stop ==
    /\ ~panicked
    /\ lim.stop /\ ~stopped
    /\ stopped' = TRUE
    /\ UNCHANGED <<others, lim, mode, panicked, handlers, rw, entries, queues, watch, workers, addVars,
                   delivered, lastDone>>

\* ----------------------------------------------------------- shutdown
\* removeAllHandlers: under the write lock, removeHandler on every handler
\* of i.handlers; each one killed here gets its excising goroutine, which
\* waits for the lock
removeAllHandlers ==
    [h \in HandlerIds |->
        IF handlers[h].inMap
        THEN [kill(h)[h] EXCEPT !.excise =
                 IF handlers[h].tombstone = handlerAlive THEN "spawned" ELSE @]
        ELSE handlers[h]]

\* i.shutdownWg.Wait(): the counter is len(queues) from queueMap.start and
\* each processEvents takes one off when it returns; nothing is added to it
\* in federated mode
shutdownWg ==
    IF mode = "queued" THEN Cardinality({w \in Queues : workers[w].pc # "exited"}) ELSE 0

\* informer.shutdown, first half: removeAllHandlers
ShutdownBegin ==
    /\ ~panicked
    /\ shut = "idle"
    /\ WriteLockFree
    /\ handlers' = removeAllHandlers
    /\ shut' = "wait"
    /\ UNCHANGED <<catalog, queried, cm, reaper, lim, mode, stopped, panicked, rw, entries, queues, watch, workers,
                   addVars, delivered, lastDone>>

\* informer.shutdown, second half: Wait returns, and so does shutdown
ShutdownReturn ==
    /\ ~panicked
    /\ shut = "wait"
    /\ shutdownWg = 0
    /\ shut' = "returned"
    /\ UNCHANGED <<catalog, queried, cm, reaper, lim, mode, stopped, panicked, handlers, rw, entries, queues, watch,
                   workers, addVars, delivered, lastDone>>

\* ------------------------------------- networkControllerManager.Start
informerVars == <<lim, mode, stopped, panicked, handlers, rw, entries, queues, watch, workers,
                  addVars, delivered, lastDone>>

\* config.Default.Zone, and what util.GetNBZone may return at a poll
ConfiguredZone == "global"
ZoneReads == {ConfiguredZone, "other", "error"}
\* the steps of Start that may come back with an error
FailingSteps == {"configureSCTPSupport", "configureSvcTemplateSupport",
                 "createACLLoggingMeter", "watchFactory.Start",
                 "initDefaultNetworkController", "defaultNetworkController.Start",
                 "nadController.Start"}

\* the condition function handed to wait.PollImmediate, on one zone read
\* (faulty variant: a zone other than the configured one is accepted)
zoneConditionLax(read) ==
    IF read = "error" THEN [done |-> FALSE, err |-> TRUE] ELSE [done |-> TRUE, err |-> FALSE]
zoneCondition(read) ==
    IF read = "error" THEN [done |-> FALSE, err |-> TRUE]
    ELSE IF ConfiguredZone # read THEN [done |-> FALSE, err |-> TRUE]
    ELSE [done |-> TRUE, err |-> FALSE]

\* Start returns err after `step`
ReturnErr(step) ==
    [cm EXCEPT !.pc = "returned", !.log = Append(@, step), !.failed = step, !.result = "error"]
\* `step` is over and Start goes on with `next`
GoOn(step, next) == [cm EXCEPT !.pc = next, !.log = Append(@, step)]

\* Start is called
Start ==
    /\ cm.pc = "idle"
    /\ cm' = [cm EXCEPT !.pc = "PollImmediate"]
    /\ UNCHANGED <<informerVars, shut, reaper, catalog, queried>>

\* wait.PollImmediate: the condition is evaluated at once and then at every
\* interval; an error of the condition ends the poll with that error, done
\* ends it with success, and the deadline ends it with a timeout error
PollImmediate ==
    /\ cm.pc = "PollImmediate"
    /\ LET c == zoneCondition(cm.zones[cm.polls + 1])
           polled == [cm EXCEPT !.polls = @ + 1]
       IN cm' = IF c.err \/ (~c.done /\ cm.polls + 1 >= MaxPolls)
                THEN [polled EXCEPT !.pc = "returned", !.failed = "PollImmediate",
                                    !.result = "error"]
                ELSE IF c.done THEN [polled EXCEPT !.pc = "configureMetrics"]
                ELSE polled
    /\ UNCHANGED <<informerVars, shut, reaper, catalog, queried>>

configureMetrics ==
    /\ cm.pc = "configureMetrics"
    /\ cm' = GoOn("configureMetrics", "configureSCTPSupport")
    /\ UNCHANGED <<informerVars, shut, reaper, catalog, queried>>

\* (faulty variant: the error of the SCTP probe is dropped)
configureSCTPSupportTolerant ==
    /\ cm.pc = "configureSCTPSupport"
    /\ cm' = GoOn("configureSCTPSupport", "configureSvcTemplateSupport")
    /\ UNCHANGED <<informerVars, shut, reaper, catalog, queried>>
configureSCTPSupport ==
    /\ cm.pc = "configureSCTPSupport"
    /\ cm' = IF "configureSCTPSupport" \in cm.fails
             THEN ReturnErr("configureSCTPSupport")
             ELSE GoOn("configureSCTPSupport", "configureSvcTemplateSupport")
    /\ UNCHANGED <<informerVars, shut, reaper, catalog, queried>>

\* no error comes back: a failed probe turns the template support off
configureSvcTemplateSupport ==
    /\ cm.pc = "configureSvcTemplateSupport"
    /\ cm' = [GoOn("configureSvcTemplateSupport", "createACLLoggingMeter")
                 EXCEPT !.svcTemplateSupport = "configureSvcTemplateSupport" \notin cm.fails]
    /\ UNCHANGED <<informerVars, shut, reaper, catalog, queried>>

\* err != nil: return nil
createACLLoggingMeter ==
    /\ cm.pc = "createACLLoggingMeter"
    /\ cm' = IF "createACLLoggingMeter" \in cm.fails
             THEN [ReturnErr("createACLLoggingMeter") EXCEPT !.result = "nil"]
             ELSE GoOn("createACLLoggingMeter", "podRecorder.Run")
    /\ UNCHANGED <<informerVars, shut, reaper, catalog, queried>>

\* the metric recorders
podRecorderRun ==
    /\ cm.pc = "podRecorder.Run"
    /\ cm' = GoOn("podRecorder.Run", "watchFactory.Start")
    /\ UNCHANGED <<informerVars, shut, reaper, catalog, queried>>

watchFactoryStart ==
    /\ cm.pc = "watchFactory.Start"
    /\ cm' = IF "watchFactory.Start" \in cm.fails
             THEN ReturnErr("watchFactory.Start")
             ELSE GoOn("watchFactory.Start", "initDefaultNetworkController")
    /\ UNCHANGED <<informerVars, shut, reaper, catalog, queried>>

initDefaultNetworkController ==
    /\ cm.pc = "initDefaultNetworkController"
    /\ cm' = IF "initDefaultNetworkController" \in cm.fails
             THEN ReturnErr("initDefaultNetworkController")
             ELSE GoOn("initDefaultNetworkController", "defaultNetworkController.Start")
    /\ UNCHANGED <<informerVars, shut, reaper, catalog, queried>>

\* (faulty variant: the NAD controller is started whether or not there is one)
defaultNetworkControllerStartThenNad ==
    /\ cm.pc = "defaultNetworkController.Start"
    /\ cm' = IF "defaultNetworkController.Start" \in cm.fails
             THEN ReturnErr("defaultNetworkController.Start")
             ELSE GoOn("defaultNetworkController.Start", "nadController.Start")
    /\ UNCHANGED <<informerVars, shut, reaper, catalog, queried>>
\* defaultNetworkController.Start, and on success the end of Start when
\* there is no NAD controller
defaultNetworkControllerStart ==
    /\ cm.pc = "defaultNetworkController.Start"
    /\ cm' = IF "defaultNetworkController.Start" \in cm.fails
             THEN ReturnErr("defaultNetworkController.Start")
             ELSE IF cm.nadController
                  THEN GoOn("defaultNetworkController.Start", "nadController.Start")
                  ELSE [GoOn("defaultNetworkController.Start", "returned")
                           EXCEPT !.result = "nil"]
    /\ UNCHANGED <<informerVars, shut, reaper, catalog, queried>>

\* return cm.nadController.Start()
nadControllerStart ==
    /\ cm.pc = "nadController.Start"
    /\ cm' = IF "nadController.Start" \in cm.fails
             THEN ReturnErr("nadController.Start")
             ELSE [GoOn("nadController.Start", "returned") EXCEPT !.result = "nil"]
    /\ UNCHANGED <<informerVars, shut, reaper, catalog, queried>>

\* ------------------------------------------------ NewNetworkController
\* NewNetworkController(nInfo) for nInfo.TopologyType() = topoType: the
\* error, or the kind of secondary controller that is returned
\* (faulty variant: the interconnect feature is not looked at)
NewNetworkControllerAnyFeature(topoType) ==
    IF cm.cnciFails THEN [topo |-> topoType, err |-> TRUE, controller |-> "none"]
    ELSE IF topoType \in {Layer3Topology, Layer2Topology, LocalnetTopology}
         THEN [topo |-> topoType, err |-> FALSE, controller |-> topoType]
         ELSE [topo |-> topoType, err |-> TRUE, controller |-> "none"]
NewNetworkController(topoType) ==
    IF cm.cnciFails THEN [topo |-> topoType, err |-> TRUE, controller |-> "none"]
    ELSE IF topoType = Layer3Topology
         THEN [topo |-> topoType, err |-> FALSE, controller |-> Layer3Topology]
    ELSE IF topoType = Layer2Topology
         THEN IF cm.enableInterconnect
              THEN [topo |-> topoType, err |-> TRUE, controller |-> "none"]
              ELSE [topo |-> topoType, err |-> FALSE, controller |-> Layer2Topology]
    ELSE IF topoType = LocalnetTopology
         THEN IF cm.enableInterconnect
              THEN [topo |-> topoType, err |-> TRUE, controller |-> "none"]
              ELSE [topo |-> topoType, err |-> FALSE, controller |-> LocalnetTopology]
    ELSE [topo |-> topoType, err |-> TRUE, controller |-> "none"]

\* the NAD supervisor calls NewNetworkController for a network it has seen
NetworkControllerRequested(topoType) ==
    /\ Len(cm.controllers) < MaxControllers
    /\ cm' = [cm EXCEPT !.controllers = Append(@, NewNetworkController(topoType))]
    /\ UNCHANGED <<informerVars, shut, reaper, catalog, queried>>

\* ----------------------------------------- CleanupDeletedNetworks
\* a logical switch or router of a secondary network: its network and
\* topology external IDs
Entities == [net : NetNames, topo : Topologies]

\* newDummyNetworkController(topoType, netName)
\* (faulty variant: a layer-3 controller for a topology that has none)
newDummyNetworkControllerDefault(topoType, netName) ==
    IF reaper.cnciFails THEN [err |-> TRUE, topo |-> "none"]
    ELSE IF topoType \in {Layer3Topology, Layer2Topology, LocalnetTopology}
         THEN [err |-> FALSE, topo |-> topoType]
         ELSE [err |-> FALSE, topo |-> Layer3Topology]
newDummyNetworkController(topoType, netName) ==
    IF reaper.cnciFails THEN [err |-> TRUE, topo |-> "none"]
    ELSE IF topoType \in {Layer3Topology, Layer2Topology, LocalnetTopology}
         THEN [err |-> FALSE, topo |-> topoType]
         ELSE [err |-> TRUE, topo |-> "none"]

\* the body of the two loops, on one logical switch or router
\* (faulty variant: a network that still exists is not skipped)
staleAfterUnchecked(e) ==
    LET oc == newDummyNetworkController(e.topo, e.net)
    IN IF ~oc.err THEN [reaper.stale EXCEPT ![e.net] = oc.topo] ELSE reaper.stale
staleAfter(e) ==
    IF e.net \in reaper.running THEN reaper.stale
    ELSE LET oc == newDummyNetworkController(e.topo, e.net)
         IN IF ~oc.err THEN [reaper.stale EXCEPT ![e.net] = oc.topo] ELSE reaper.stale

\* CleanupDeletedNetworks is called, up to the enumeration of the database
findAllSecondaryNetworkLogicalEntities ==
    /\ reaper.pc = "idle"
    /\ reaper' = IF reaper.enumFails # "none"
                 THEN [reaper EXCEPT !.pc = "returned", !.result = "error"]
                 ELSE [reaper EXCEPT !.pc = "switches", !.ls = reaper.switches,
                                     !.lr = reaper.routers]
    /\ UNCHANGED <<informerVars, shut, cm, catalog, queried>>

\* for _, ls := range switches
ScanSwitch ==
    /\ reaper.pc = "switches"
    /\ reaper' = IF reaper.ls = <<>> THEN [reaper EXCEPT !.pc = "routers"]
                 ELSE [reaper EXCEPT !.ls = Tail(@), !.stale = staleAfter(Head(reaper.ls))]
    /\ UNCHANGED <<informerVars, shut, cm, catalog, queried>>

\* for _, lr := range routers
ScanRouter ==
    /\ reaper.pc = "routers"
    /\ reaper' = IF reaper.lr = <<>> THEN [reaper EXCEPT !.pc = "cleanup"]
                 ELSE [reaper EXCEPT !.lr = Tail(@), !.stale = staleAfter(Head(reaper.lr))]
    /\ UNCHANGED <<informerVars, shut, cm, catalog, queried>>

\* the networks the last loop has still to visit
Pending == {n \in NetNames : reaper.stale[n] # "none"}
                \ {reaper.calls[i].net : i \in 1 .. Len(reaper.calls)}

\* for netName, oc := range staleNetworkControllers, in the order of the
\* map: oc.Cleanup(netName), whose error is logged
\* (faulty variant: the first error of Cleanup is returned)
CleanupFailFast ==
    /\ reaper.pc = "cleanup" /\ Pending # {}
    /\ \E n \in Pending :
          reaper' = IF n \in reaper.cleanupFails
                    THEN [reaper EXCEPT !.pc = "returned", !.result = "error",
                             !.calls = Append(@, [net |-> n, topo |-> reaper.stale[n],
                                                  err |-> TRUE])]
                    ELSE [reaper EXCEPT !.calls =
                             Append(@, [net |-> n, topo |-> reaper.stale[n], err |-> FALSE])]
    /\ UNCHANGED <<informerVars, shut, cm, catalog, queried>>
Cleanup ==
    /\ reaper.pc = "cleanup" /\ Pending # {}
    /\ \E n \in Pending :
          reaper' = [reaper EXCEPT !.calls =
                       Append(@, [net |-> n, topo |-> reaper.stale[n],
                                  err |-> n \in reaper.cleanupFails])]
    /\ UNCHANGED <<informerVars, shut, cm, catalog, queried>>

\* return nil
CleanupReturn ==
    /\ reaper.pc = "cleanup" /\ Pending = {}
    /\ reaper' = [reaper EXCEPT !.pc = "returned", !.result = "nil"]
    /\ UNCHANGED <<informerVars, shut, cm, catalog, queried>>

Next ==
    \/ \E obj \in AddInputs : QueuedAddFunc(obj)
    \/ \E u \in UpdateInputs : QueuedUpdateFunc(u[1], u[2])
    \/ \E obj \in DeleteInputs : QueuedDeleteFunc(obj)
    \/ WatchSend
    \/ \E obj \in AddInputs : FedAddFunc(obj)
    \/ \E u \in UpdateInputs : FedUpdateFunc(u[1], u[2])
    \/ \E obj \in DeleteInputs : FedDeleteFunc(obj)
    \/ WatchRLock
    \/ WatchLoad
    \/ WatchCall
    \/ WatchReturn
    \/ \E w \in Queues : WorkerTake(w)
    \/ \E w \in Queues : WorkerExit(w)
    \/ \E w \in Queues : WorkerRLock(w)
    \/ \E w \in Queues : WorkerLoad(w)
    \/ \E w \in Queues : WorkerCall(w)
    \/ \E w \in Queues : WorkerReturn(w)
    \/ \E w \in Queues : WorkerRelease(w)
    \/ \E h \in HandlerIds, p \in Priorities, items \in Snapshots :
          AddHandlerBegin(h, p, items)
    \/ InitialAddCall
    \/ InitialAddReturn
    \/ InitialAddRoute
    \/ InitialAddSend
    \/ InitialAddShutdown
    \/ \E w \in Queues : ReplayTake(w)
    \/ \E w \in Queues : ReplayReturn(w)
    \/ \E w \in Queues : ReplayExit(w)
    \/ AddHandlerReturn
    \/ \E h \in HandlerIds : RemoveHandler(h)
    \/ \E h \in HandlerIds : ExciseHandler(h)
    \/ Stop

Spec == Init /\ [][Next]_vars

\* the informer with a client that also shuts it down
ShutdownRun == [events |-> ShutEvents, handlers |-> ShutHandlers, items |-> ShutItems,
                stop |-> TRUE]
InitShutdown ==
    /\ catalog = ObjectIDsTypes
    /\ queried = <<>>
    /\ InformerInit(ShutdownRun)
    /\ cm = IdleManager
    /\ reaper = IdleReaper
NextShutdown ==
    \/ Next
    \/ ShutdownBegin
    \/ ShutdownReturn
SpecShutdown == InitShutdown /\ [][NextShutdown]_vars

\* the manager: Start in every environment, nadController set when
\* config.OVNKubernetesFeature.EnableMultiNetwork is
InitStart ==
    /\ catalog = ObjectIDsTypes
    /\ queried = <<>>
    /\ InformerInit(ShutdownRun) /\ mode = "queued"
    /\ \E enableMultiNetwork \in BOOLEAN, zones \in [1 .. MaxPolls -> ZoneReads],
          fails \in SUBSET FailingSteps :
          cm = [IdleManager EXCEPT !.nadController = enableMultiNetwork,
                                   !.zones = zones, !.fails = fails]
    /\ reaper = IdleReaper
NextStart ==
    \/ Start
    \/ PollImmediate
    \/ configureMetrics
    \/ configureSCTPSupport
    \/ configureSvcTemplateSupport
    \/ createACLLoggingMeter
    \/ podRecorderRun
    \/ watchFactoryStart
    \/ initDefaultNetworkController
    \/ defaultNetworkControllerStart
    \/ nadControllerStart
SpecStart == InitStart /\ [][NextStart]_vars

\* CleanupDeletedNetworks on every database and every running set
InitCleanup ==
    /\ catalog = ObjectIDsTypes
    /\ queried = <<>>
    /\ InformerInit(ShutdownRun) /\ mode = "queued"
    /\ cm = IdleManager
    /\ \E running \in SUBSET NetNames, cleanupFails \in SUBSET NetNames,
          switches \in SeqsOver(Entities, MaxSwitches),
          routers \in SeqsOver(Entities, MaxRouters),
          enumFails \in {"none", "switches", "routers"}, cnciFails \in BOOLEAN :
          reaper = [IdleReaper EXCEPT !.running = running, !.cleanupFails = cleanupFails,
                                      !.switches = switches, !.routers = routers,
                                      !.enumFails = enumFails, !.cnciFails = cnciFails]
NextCleanup ==
    \/ findAllSecondaryNetworkLogicalEntities
    \/ ScanSwitch
    \/ ScanRouter
    \/ Cleanup
    \/ CleanupReturn
SpecCleanup == InitCleanup /\ [][NextCleanup]_vars

\* the manager with its NAD supervisor: nadController.Start, once it has
\* succeeded, has the manager reap the stale networks with
\* CleanupDeletedNetworks(allControllers)
NadStarted == "nadController.Start" \in Range(cm.log) /\ cm.failed # "nadController.Start"
syncNetworkControllers ==
    /\ NadStarted
    /\ findAllSecondaryNetworkLogicalEntities

\* Start with the zone right, and the database enumerated without error
InitManager ==
    /\ catalog = ObjectIDsTypes
    /\ queried = <<>>
    /\ InformerInit(ShutdownRun) /\ mode = "queued"
    /\ \E enableMultiNetwork \in BOOLEAN,
          fails \in SUBSET {"createACLLoggingMeter", "nadController.Start"} :
          cm = [IdleManager EXCEPT !.nadController = enableMultiNetwork,
                                   !.zones = [i \in 1 .. MaxPolls |-> ConfiguredZone],
                                   !.fails = fails]
    /\ \E running \in SUBSET NetNames,
          switches \in SeqsOver(Entities, MaxSwitches),
          routers \in SeqsOver(Entities, MaxRouters) :
          reaper = [IdleReaper EXCEPT !.running = running,
                                      !.switches = switches, !.routers = routers]
NextManager ==
    \/ Start
    \/ PollImmediate
    \/ configureMetrics
    \/ configureSCTPSupport
    \/ configureSvcTemplateSupport
    \/ createACLLoggingMeter
    \/ podRecorderRun
    \/ watchFactoryStart
    \/ initDefaultNetworkController
    \/ defaultNetworkControllerStart
    \/ nadControllerStart
    \/ syncNetworkControllers
    \/ ScanSwitch
    \/ ScanRouter
    \/ Cleanup
    \/ CleanupReturn
SpecManager == InitManager /\ [][NextManager]_vars

\* the manager asked for controllers, in every configuration
InitControllers ==
    /\ catalog = ObjectIDsTypes
    /\ queried = <<>>
    /\ InformerInit(ShutdownRun) /\ mode = "queued"
    /\ \E enableInterconnect \in BOOLEAN, cnciFails \in BOOLEAN :
          cm = [IdleManager EXCEPT !.enableInterconnect = enableInterconnect,
                                   !.cnciFails = cnciFails]
    /\ reaper = IdleReaper
NextControllers ==
    \/ \E topoType \in Topologies : NetworkControllerRequested(topoType)
SpecControllers == InitControllers /\ [][NextControllers]_vars

\* the informer with a client that registers handlers, at one priority, over
\* a cache holding one object more than the channels of a queue map can
\* buffer, and removes them; the owner may close stopChan and the cache
\* delivers no event
ReplayItems == NumQueues * QueueCap + 1
ReplayKeys == <<"a", "b", "c", "d", "e", "f", "g", "h", "i", "j">>
FullCache == [i \in 1 .. ReplayItems |-> Obj(oType, ReplayKeys[i], 1)]
ReplaySnapshots == {<<>>, FullCache}
RegisterRun == [events |-> RegEvents, handlers |-> RegHandlers, items |-> ReplayItems,
                stop |-> TRUE]
InitRegister ==
    /\ catalog = ObjectIDsTypes
    /\ queried = <<>>
    /\ InformerInit(RegisterRun)
    /\ cm = IdleManager
    /\ reaper = IdleReaper
NextRegister ==
    \/ \E h \in HandlerIds, items \in ReplaySnapshots :
          AddHandlerBegin(h, 0, items)
    \/ InitialAddCall
    \/ InitialAddReturn
    \/ InitialAddRoute
    \/ InitialAddSend
    \/ InitialAddShutdown
    \/ \E w \in Queues : ReplayTake(w)
    \/ \E w \in Queues : ReplayReturn(w)
    \/ \E w \in Queues : ReplayExit(w)
    \/ AddHandlerReturn
    \/ \E h \in HandlerIds : RemoveHandler(h)
    \/ \E h \in HandlerIds : ExciseHandler(h)
    \/ Stop
SpecRegister == InitRegister /\ [][NextRegister]_vars
\* the same, with the scheduling Go gives: a goroutine that can take its
\* next step takes it, and a goroutine waiting for the informer's lock gets
\* it when the lock is released again and again. Nothing obliges the client
\* to call anything or the owner to close stopChan.
SpecRegisterFair ==
    /\ SpecRegister
    /\ \A w \in Queues :
          /\ WF_vars(ReplayTake(w) \/ ReplayExit(w))
          /\ WF_vars(ReplayReturn(w))
    /\ WF_vars(InitialAddCall) /\ WF_vars(InitialAddReturn)
    /\ WF_vars(InitialAddRoute) /\ WF_vars(InitialAddSend) /\ WF_vars(InitialAddShutdown)
    /\ WF_vars(AddHandlerReturn)
    /\ \A h \in HandlerIds : SF_vars(ExciseHandler(h))

\* getNewQueueNum on queue maps of any number of queues and any queue
\* lengths: the routing of an event picks a queue and sends the event to it
Filled(n) == [i \in 1 .. n |-> NoEv]
QueueMaps ==
    UNION {[0 .. (n - 1) -> {Filled(len) : len \in 0 .. MaxQueueLen}] : n \in 1 .. MaxQueueNum}
InitQueueNum ==
    /\ catalog = ObjectIDsTypes
    /\ queried = <<>>
    /\ lim = ShutdownRun /\ mode = "queued"
    /\ shut = "idle" /\ stopped = FALSE /\ panicked = FALSE
    /\ handlers = [h \in HandlerIds |-> NoHandler]
    /\ rw = [readers |-> {}, writer |-> FALSE]
    /\ entries = NoEntries
    /\ queues \in QueueMaps
    /\ watch = IdleRunner
    /\ workers = [w \in Queues |-> IdleRunner]
    /\ adder = IdleAdder
    /\ aEntries = NoEntries /\ aQueues = EmptyQueues /\ aClosed = FALSE
    /\ aWorkers = [w \in Queues |-> IdleReplay]
    /\ delivered = 0
    /\ lastDone = [k \in Keys |-> "none"]
    /\ cm = IdleManager /\ reaper = IdleReaper
\* getNewQueueNum returns the queue found from start index startIdx
PickQueue(startIdx) ==
    /\ ~panicked /\ watch.pc = "idle"
    /\ startIdx \in Intn(numEventQueues(queues) - 1)
    /\ delivered < MaxEvents
    /\ delivered' = delivered + 1
    /\ watch' = [IdleRunner EXCEPT !.pc = "send", !.q = getNewQueueNum(queues, startIdx)]
    /\ UNCHANGED <<others, lim, mode, stopped, panicked, handlers, rw, entries, queues, workers,
                   addVars, lastDone>>
\* getNewQueueNum on a queue map for which Intn has no value to return
PickQueuePanics ==
    /\ ~panicked /\ watch.pc = "idle"
    /\ Intn(numEventQueues(queues) - 1) = {}
    /\ delivered < MaxEvents
    /\ panicked' = TRUE
    /\ UNCHANGED <<others, lim, mode, stopped, handlers, rw, entries, queues, watch, workers,
                   addVars, delivered, lastDone>>
\* the event is sent to the queue picked, when there is room
PickedSend ==
    /\ ~panicked /\ watch.pc = "send"
    /\ Len(queues[watch.q]) < MaxQueueLen
    /\ queues' = [queues EXCEPT ![watch.q] = Append(@, NoEv)]
    /\ watch' = IdleRunner
    /\ UNCHANGED <<others, lim, mode, stopped, panicked, handlers, rw, entries, workers, addVars,
                   delivered, lastDone>>
NextQueueNum ==
    \/ \E startIdx \in 0 .. (MaxQueueNum - 1) : PickQueue(startIdx)
    \/ PickQueuePanics
    \/ PickedSend
SpecQueueNum == InitQueueNum /\ [][NextQueueNum]_vars

\* the retry logic asks, for one resource type after the other, whether the
\* type has an update function and whether it needs update during retry
InitResources ==
    /\ catalog = ObjectIDsTypes
    /\ queried = <<>>
    /\ InformerInit(ShutdownRun) /\ mode = "queued"
    /\ cm = IdleManager
    /\ reaper = IdleReaper
ResourceQueried(objType) ==
    /\ Len(queried) < MaxQueries
    /\ queried' = Append(queried, [objType |-> objType,
                                   hasUpdateFunc |-> hasResourceAnUpdateFunc(objType),
                                   needsUpdate |-> needsUpdateDuringRetry(objType)])
    /\ UNCHANGED <<informerVars, shut, cm, reaper, catalog>>
NextResources ==
    \/ \E objType \in ResourceTypes : ResourceQueried(objType)
SpecResources == InitResources /\ [][NextResources]_vars

\* ------------------------------------------------------------- claims
\* the events routed through i.queueMap and not yet released, with the queue
\* each was routed to and how far it got
InFlight ==
    (IF mode = "queued" /\ watch.pc = "send"
     THEN {[ev |-> watch.ev, q |-> watch.q, at |-> "send"]} ELSE {})
    \cup UNION {{[ev |-> queues[q][i], q |-> q, at |-> "queued"] : i \in 1 .. Len(queues[q])} :
                  q \in Queues}
    \cup {[ev |-> workers[w].ev, q |-> w, at |-> workers[w].pc] :
            w \in {v \in Queues : workers[v].pc \in {"lock", "fan", "release"}}}
KeyOf(x) == x.ev.obj.key

\* a base callback of handler h starts in this step, on any goroutine
CallbackStarts(h) ==
    \/ watch.cb = NoCb /\ watch'.cb.h = h
    \/ \E w \in Queues : workers[w].cb = NoCb /\ workers'[w].cb.h = h
    \/ adder.cb = NoCb /\ adder'.cb.h = h
    \/ \E w \in Queues : aWorkers[w].cb = NoCb /\ aWorkers'[w].cb.h = h
\* the base callbacks in flight
CallbacksInFlight ==
    ({watch.cb, adder.cb} \cup {workers[w].cb : w \in Queues}
        \cup {aWorkers[w].cb : w \in Queues}) \ {NoCb}
\* the goroutines fanning a cache event out: the watch thread (federated) and
\* the workers of i.queueMap (queued)
FanRunners == {watch} \cup {workers[w] : w \in Queues}

\* C1 (as stated): in queued mode two events of one key are always routed to
\* the same worker: an event routed for a key that already has an entry goes
\* to the queue the key's previous event went to.
C1_SameWorkerAlways ==
    [][\A k \in Keys :
          (k \in DOMAIN entries /\ k \in DOMAIN entries'
             /\ entries'[k].refcount = entries[k].refcount + 1)
          => entries'[k].queue = entries[k].queue]_vars

\* C1 (amended): in queued mode two events of one key that are in flight
\* together (the earlier not yet released when the later is routed) are on the
\* same worker, and while a handler callback runs for an event no earlier
\* event of the same key is still waiting for its callbacks or running them.
C1_PerKeyOrder ==
    \A x, y \in InFlight :
        KeyOf(x) = KeyOf(y) /\ x.ev.seq < y.ev.seq
        => /\ x.q = y.q
           /\ y.at \in {"lock", "fan"} => x.at = "release"

\* C1 witness: a callback runs for an event of key a routed to queue 1 after
\* an earlier event of that key was completed on the other queue.
C1_Witness ==
    /\ workers[1].pc = "fan" /\ workers[1].cb # NoCb
    /\ workers[1].ev.obj.key = "a" /\ lastDone["a"] # "none"

\* C2 (as stated): for any key at most one event has its process closure
\* running, over the workers of i.queueMap and of a replay's addsMap.
C2_OneClosurePerKey ==
    \A k \in Keys :
        Cardinality({w \in Queues : workers[w].pc \in {"lock", "fan", "release"}
                                    /\ workers[w].ev.obj.key = k})
          + Cardinality({w \in Queues : aWorkers[w].pc = "run"
                                        /\ aWorkers[w].ev.obj.key = k}) <= 1

\* C2 (amended): for any key at most one event has its process closure
\* running among the workers of one queue map (i.queueMap, or the addsMap of
\* an addHandler in progress), and over the two maps at most one closure of
\* the key is calling handlers: while a replay closure of the key runs, a
\* closure of i.queueMap for the key is not inside its fan-out (it waits for
\* the read lock or is about to release the entry).
C2_OneClosurePerKeyAndMap ==
    \A k \in Keys :
        /\ Cardinality({w \in Queues : workers[w].pc \in {"lock", "fan", "release"}
                                       /\ workers[w].ev.obj.key = k}) <= 1
        /\ Cardinality({w \in Queues : aWorkers[w].pc = "run"
                                       /\ aWorkers[w].ev.obj.key = k}) <= 1
        /\ Cardinality({w \in Queues : workers[w].pc = "fan"
                                       /\ workers[w].ev.obj.key = k})
              + Cardinality({w \in Queues : aWorkers[w].pc = "run"
                                            /\ aWorkers[w].ev.obj.key = k}) <= 1

\* C2 witness: a replay closure runs for key a on a worker of addsMap while a
\* closure of i.queueMap for key a waits for the read lock.
C2_Witness ==
    \E w, v \in Queues :
        /\ aWorkers[v].pc = "run" /\ aWorkers[v].cb # NoCb /\ aWorkers[v].ev.obj.key = "a"
        /\ workers[w].pc = "lock" /\ workers[w].ev.obj.key = "a"

\* the in-map handlers a fan-out has finished with, and those still to come
Visited(r) == InMap \ Range(r.todo)
ToCome(r) == Range(Tail(r.todo))
AscendingAt(r) ==
    /\ \A g \in InMap : handlers[g].priority < handlers[r.cb.h].priority => g \in Visited(r)
    /\ \A g \in InMap : handlers[g].priority > handlers[r.cb.h].priority => g \in ToCome(r)
DescendingAt(r) ==
    /\ \A g \in InMap : handlers[g].priority > handlers[r.cb.h].priority => g \in Visited(r)
    /\ \A g \in InMap : handlers[g].priority < handlers[r.cb.h].priority => g \in ToCome(r)

\* C3 (as stated): while an add or update callback runs on a handler every
\* handler of higher priority (lower number) is done with the event and none
\* of lower priority has started; while any delete callback runs it is the
\* other way round.
C3_DeleteCallbacksReversed ==
    \A r \in FanRunners :
        r.pc = "fan" /\ r.cb # NoCb
        => IF r.cb.kind = "delete" THEN DescendingAt(r) ELSE AscendingAt(r)

\* C3 (amended): the order follows the event, not the callback: handlers are
\* visited by ascending priority number for an add or update event, the
\* OnDelete(old) of a replacement update included, and by descending priority
\* number for a delete event.
C3_PriorityOrder ==
    \A r \in FanRunners :
        r.pc = "fan" /\ r.cb # NoCb
        => IF r.ev.kind = "delete" THEN DescendingAt(r) ELSE AscendingAt(r)

\* C3 witness: a delete event's callback runs on the priority-0 handler after
\* the priority-1 handler is done with the event.
C3_Witness ==
    \E r \in FanRunners :
        /\ r.pc = "fan" /\ r.cb # NoCb /\ r.ev.kind = "delete"
        /\ handlers[r.cb.h].priority = 0
        /\ \E g \in Visited(r) : handlers[g].priority = 1

\* removeHandler(h) has returned after killing h: its goroutine was started
Removed(h) == handlers[h].excise # "none"

\* C4: once removeHandler(h) has returned no base callback of h starts any
\* more, on any goroutine.
C4_NoCallbackAfterRemove ==
    [][\A h \in HandlerIds : Removed(h) => ~CallbackStarts(h)]_vars

\* C4 witness: removeHandler(h) has returned while a worker fanning out an
\* event from the queues is between the tombstone load, which found h alive,
\* and the call of the base callback of h.
C4_Witness ==
    \E w \in Queues :
        /\ workers[w].pc = "fan" /\ workers[w].passed
        /\ Removed(Head(workers[w].todo))

\* a call of Handler.OnAdd / OnUpdate / OnDelete on h loads the tombstone in
\* this step and goes on to the base callback
WrapperPasses(h) ==
    \/ watch'.pc = "fan" /\ ~watch.passed /\ watch'.passed /\ Head(watch'.todo) = h
    \/ \E w \in Queues : /\ workers'[w].pc = "fan" /\ ~workers[w].passed
                          /\ workers'[w].passed /\ Head(workers'[w].todo) = h
    \/ adder.cb = NoCb /\ adder'.cb.h = h
    \/ \E w \in Queues : aWorkers[w].cb = NoCb /\ aWorkers'[w].cb.h = h
\* a base callback of h starts in this step without a tombstone load that
\* found h alive
StartsUnchecked(h) ==
    \/ watch.cb = NoCb /\ watch'.cb.h = h /\ ~watch.passed
    \/ \E w \in Queues : workers[w].cb = NoCb /\ workers'[w].cb.h = h /\ ~workers[w].passed

\* C5: a dead handler stays dead, and a call of OnAdd, OnUpdate or OnDelete
\* made on a handler whose flag is dead goes on to no base callback: every
\* base callback follows a load of the flag that found it alive.
C5_DeadStaysDead ==
    [][\A h \in HandlerIds :
          /\ handlers[h].tombstone = handlerDead
             => handlers'[h].tombstone = handlerDead /\ ~WrapperPasses(h)
          /\ ~StartsUnchecked(h)]_vars

\* C5 witness: a fan-out has moved past a dead handler that is still in the
\* map and runs the callback of the next handler.
C5_Witness ==
    \E r \in FanRunners :
        /\ r.pc = "fan" /\ r.cb # NoCb
        /\ \E g \in Visited(r) : handlers[g].tombstone = handlerDead

\* the keys of the snapshot given to the addHandler in progress
SnapshotKeys == {adder.snapshot[i].key : i \in 1 .. Len(adder.snapshot)}
\* the initial-add callbacks in flight, on the caller's thread or on addsMap
ReplayCallbacks == ({adder.cb} \cup {aWorkers[w].cb : w \in Queues}) \ {NoCb}
\* an initial-add callback for key k starts in this step
ReplayStarts(k) ==
    \/ adder.cb = NoCb /\ adder'.cb # NoCb /\ adder'.cb.obj.key = k
    \/ \E w \in Queues :
          aWorkers[w].cb = NoCb /\ aWorkers'[w].cb # NoCb /\ aWorkers'[w].cb.obj.key = k
\* addsMap holds no item any more: nothing queued, nothing running
Drained == \A q \in Queues : aQueues[q] = <<>> /\ aWorkers[q].pc # "run"
\* this step puts the new handler into i.handlers and returns from addHandler
Inserts == adder.pc # "idle" /\ adder'.pc = "idle"
\* until the insert the new handler is not in the map and no fan-out calls it
NewHandlerQuiet ==
    adder.pc # "idle"
    => /\ ~handlers[adder.h].inMap
       /\ \A r \in FanRunners : r.cb.h # adder.h
\* each snapshot item gets its OnAdd once, on the new handler
ReplayOnce ==
    \A k \in Keys :
        ReplayStarts(k)
        => /\ k \in SnapshotKeys /\ k \notin adder.done
           /\ \A c \in ReplayCallbacks : c.obj.key # k
           /\ \A c \in ReplayCallbacks' : c.h = adder.h /\ c.kind = "add"

\* C6 (as stated): when addHandler inserts the handler and returns, every
\* item of the snapshot has had its OnAdd completed on the new handler, in
\* queued mode the temporary queue map is fully drained, and before that the
\* new handler has received no live event.
C6_ReplayAlwaysComplete ==
    [][/\ NewHandlerQuiet
       /\ ReplayOnce
       /\ Inserts => /\ adder.done = SnapshotKeys
                     /\ mode = "queued" => Drained]_vars

\* C6 witness: in queued mode stopChan was closed during the replay and both
\* workers of addsMap have returned with a snapshot item undelivered; the
\* insert is the next step of addHandler.
C6_Witness ==
    /\ mode = "queued" /\ stopped /\ adder.pc = "wait"
    /\ \A w \in Queues : aWorkers[w].pc = "exited"
    /\ adder.done # SnapshotKeys /\ ~Drained

\* the goroutines that fan cache events out, by id
RunnerIds == {WatchId} \cup {WorkerId(w) : w \in Queues}
Runner(i) == IF i = WatchId THEN watch ELSE workers[i - 1]
\* an update whose old and new object differ in identity
Replaced(ev) == ev.kind = "update" /\ GetUID(ev.oldObj) # GetUID(ev.obj)
Callback(h, kind, oldObj, obj) == [h |-> h, kind |-> kind, obj |-> obj, oldObj |-> oldObj]

\* the callback that runs for an update event is the one the uids call for
UpdateCallbackFits(r) ==
    r.pc = "fan" /\ r.ev.kind = "update" /\ r.cb # NoCb
    => IF Replaced(r.ev)
       THEN \/ r.calls = 0 /\ r.cb = Callback(Head(r.todo), "delete", NoObj, r.ev.oldObj)
            \/ r.calls = 1 /\ r.cb = Callback(Head(r.todo), "add", NoObj, r.ev.obj)
       ELSE r.calls = 0 /\ r.cb = Callback(Head(r.todo), "update", r.ev.oldObj, r.ev.obj)
\* a step of runner i on an update event: a handler found alive gets its
\* next callback, and a handler is left only after all of its callbacks
UpdateStepFits(i) ==
    LET r == Runner(i)
        n == Runner(i)'
        h == Head(r.todo)
        alive == handlers[h].tombstone = handlerAlive
        loads == r.cb = NoCb /\ ~r.passed
        stays == n.pc = "fan" /\ n.todo = r.todo /\ n.cb = NoCb
    IN r.pc = "fan" /\ r.ev.kind = "update" /\ n # r
       => IF Replaced(r.ev)
          THEN /\ loads /\ alive => stays /\ n.passed /\ n.calls = r.calls
               /\ r.calls = 0 /\ r.passed
                  => n.cb = Callback(h, "delete", NoObj, r.ev.oldObj) /\ n.calls = 0
               /\ r.calls = 0 /\ (r.cb # NoCb \/ (loads /\ ~alive))
                  => stays /\ ~n.passed /\ n.calls = 1
               /\ r.calls = 1 /\ r.passed
                  => n.cb = Callback(h, "add", NoObj, r.ev.obj) /\ n.todo = r.todo
          ELSE /\ loads /\ alive => stays /\ n.passed
               /\ r.passed => n.cb = Callback(h, "update", r.ev.oldObj, r.ev.obj)

\* C7: for an update whose old and new object have different uids every live
\* handler gets OnDelete(old) and then OnAdd(new), never OnUpdate; for an
\* update with equal uids every live handler gets exactly OnUpdate(old, new);
\* in federated and in queued mode.
C7_ReplaceIsDeleteThenAdd ==
    /\ [](\A r \in FanRunners : UpdateCallbackFits(r))
    /\ [][\A i \in RunnerIds : UpdateStepFits(i)]_vars

\* C7 witness: OnAdd(new) runs on a handler for a replacement update, after
\* its OnDelete(old), on a worker of the queue map.
C7_Witness ==
    \E w \in Queues :
        /\ mode = "queued" /\ workers[w].pc = "fan" /\ Replaced(workers[w].ev)
        /\ workers[w].calls = 1 /\ workers[w].cb.kind = "add"

\* the keys with an event routed through i.queueMap and not yet released
KeysInFlight == {KeyOf(x) : x \in InFlight}

\* C8 (as stated): the entry of key k is absent if and only if no event of k
\* is in flight and the last completed event of k was a delete.
C8_AbsentIffLastWasDelete ==
    mode = "queued"
    => \A k \in Keys :
          k \notin DOMAIN entries <=> (k \notin KeysInFlight /\ lastDone[k] = "delete")

\* C8 (amended): the entry of key k is absent if and only if no event of k is
\* in flight and either no event of k has completed yet or the last completed
\* event of k was a delete.
C8_AbsentIffNoneOrDelete ==
    mode = "queued"
    => \A k \in Keys :
          k \notin DOMAIN entries
          <=> (k \notin KeysInFlight /\ lastDone[k] \in {"none", "delete"})

\* C8 witness: the entry of key a is gone after a delete of a completed, and
\* the entry of key b is kept, unused, after an add of b completed.
C8_Witness ==
    /\ mode = "queued"
    /\ "a" \notin DOMAIN entries /\ lastDone["a"] = "delete"
    /\ "b" \in DOMAIN entries /\ "b" \notin KeysInFlight /\ lastDone["b"] = "add"

\* the events held by the informer: routed, queued or being fanned out
EventsHeld == {x.ev : x \in InFlight} \cup ({watch.ev} \ {NoEv})

\* C9: an add or update event whose object is not of the declared type is
\* dropped in federated and in queued mode: it reaches no handler callback
\* and the informer goes on processing events (it does not crash).
C9_MismatchDropped ==
    /\ ~panicked
    /\ \A cb \in CallbacksInFlight : TypeOf(cb.obj) = oType

\* a delete value ensureObjectOnDelete accepts, and the object it stands for
Deletable(v) == TypeOf(v) = oType \/ (TypeOf(v) = "Tomb" /\ v.inner = oType)
Unwrapped(v) == Obj(oType, v.key, v.uid)
\* the cache invokes DeleteFunc(v) in this step
DeleteFuncStep(v) == QueuedDeleteFunc(v) \/ FedDeleteFunc(v)

\* C10: a delete carrying a tombstone reaches the handlers with the unwrapped
\* object; a delete value that is neither of the declared type nor a tombstone
\* of an object of that type is dropped: nothing is enqueued, the queue map is
\* unchanged and no callback fires.
C10_DeleteUnwrapsOrDrops ==
    /\ [](\A ev \in EventsHeld : ev.kind = "delete" => TypeOf(ev.obj) = oType)
    /\ [](\A cb \in CallbacksInFlight : cb.kind = "delete" => TypeOf(cb.obj) = oType)
    /\ [][\A v \in DeleteInputs :
             DeleteFuncStep(v)
             => IF Deletable(v)
                THEN watch'.ev.kind = "delete" /\ watch'.ev.obj = Unwrapped(v)
                ELSE UNCHANGED <<panicked, handlers, rw, entries, queues, watch, workers,
                                 addVars, lastDone>>]_vars

\* C10 witness: OnDelete runs on a handler with the object a tombstone
\* wrapped, which only the tombstone delivered.
C10_Witness ==
    \E r \in FanRunners :
        r.pc = "fan" /\ r.ev.kind = "delete" /\ r.cb = Callback(Head(r.todo), "delete", NoObj, ObjA2)

\* a process closure of i.queueMap or of an addsMap is running
ClosuresRunning ==
    {w \in Queues : workers[w].pc \in {"lock", "fan", "done", "release"}}
    \cup {w \in Queues : aWorkers[w].pc = "run"}

\* C11: after informer.shutdown has returned every handler of the informer
\* is dead, no base callback of a handler is running on any goroutine, and
\* no process closure is running (in queued mode every processEvents
\* goroutine has returned).
C11_QuietAfterShutdown ==
    shut = "returned" =>
        /\ \A h \in HandlerIds : handlers[h].created => handlers[h].tombstone = handlerDead
        /\ CallbacksInFlight = {}
        /\ ClosuresRunning = {}
        /\ mode = "queued" => \A w \in Queues : workers[w].pc = "exited"

\* C11 witness: shutdown has returned and a base callback runs on a handler
\* registered afterwards, which is alive and in the map.
C11_Witness ==
    /\ shut = "returned"
    /\ \E r \in FanRunners :
          /\ r.cb # NoCb /\ handlers[r.cb.h].inMap
          /\ handlers[r.cb.h].tombstone = handlerAlive

\* C12 (as stated): shutdown closes the channels of i.queueMap, so that once
\* it waits on the barrier a processEvents goroutine idle on an empty queue
\* is able to return, and shutdown returns when the running closures end.
C12_ChannelsClosedByShutdown ==
    (shut = "wait" /\ mode = "queued" /\ ~panicked) =>
        \A w \in Queues :
            (workers[w].pc = "idle" /\ queues[w] = <<>>) => ENABLED WorkerExit(w)

\* C12 witness: in queued mode shutdown waits on the barrier with stopChan
\* open, no closure running and every queue empty: no processEvents goroutine
\* can return.
C12_Witness ==
    /\ shut = "wait" /\ mode = "queued" /\ ~stopped /\ ~panicked
    /\ ClosuresRunning = {}
    /\ \A w \in Queues : workers[w].pc = "idle" /\ queues[w] = <<>>
    /\ watch.pc = "idle"

\* the watch thread is inside a queued cache callback, at the channel send
Sending == mode = "queued" /\ watch.pc = "send"

\* C13 (as stated): in queued mode a cache callback never blocks the watch
\* thread: whatever the occupancy of the queues, a callback that is at its
\* channel send can complete it and return.
C13_CallbackNeverBlocks ==
    (Sending /\ ~panicked) => ENABLED WatchSend

\* C13 (amended): a queued cache callback at its channel send blocks the
\* watch thread exactly while the queue chosen for its object is full; when
\* the queue has room the send appends the event at the tail of that queue
\* and the callback returns, and the callback ends in no other way.
C13_CallbackBlocksWhileFull ==
    /\ [][(Sending /\ ~panicked) =>
             (ENABLED WatchSend <=> Len(queues[watch.q]) < QueueCap)]_vars
    /\ [][(Sending /\ watch' # watch) =>
             /\ Len(queues[watch.q]) < QueueCap
             /\ queues' = [queues EXCEPT ![watch.q] = Append(@, watch.ev)]
             /\ watch' = IdleRunner]_vars

\* C13 witness: the watch thread is blocked in a callback: the queue of its
\* event is full and the worker of that queue has not yet received from it.
C13_Witness ==
    /\ Sending /\ Len(queues[watch.q]) = QueueCap
    /\ workers[watch.q].pc = "idle"

\* the steps Start has executed so far, and the zone reads its poll has seen
Executed == Range(cm.log)
Started == Executed \ {cm.failed}
ZonesSeen == {cm.zones[i] : i \in 1 .. cm.polls}
Components == {"watchFactory.Start", "defaultNetworkController.Start", "nadController.Start"}

\* C14: the watch factory, the default controller and the NAD supervisor
\* are started only after the zone poll of this Start has read a zone equal
\* to the configured one (and that read was the poll's last).
C14_StartedOnlyAfterZoneMatch ==
    (Executed \cap Components # {}) =>
        /\ ConfiguredZone \in ZonesSeen
        /\ cm.polls >= 1 /\ cm.zones[cm.polls] = ConfiguredZone

\* C14 witness: Start has returned with the three components started.
C14_Witness ==
    /\ cm.pc = "returned" /\ cm.result = "nil"
    /\ Components \subseteq Started

\* the zone poll of Start is over; it ended in an error
PollOver == cm.pc \notin {"idle", "PollImmediate"}
PollFailed == cm.failed = "PollImmediate"
\* the database reports another zone at first and the configured one at a
\* later poll, before the deadline
MatchAfterMismatch ==
    \E i \in 2 .. MaxPolls :
        /\ cm.zones[i] = ConfiguredZone
        /\ \A j \in 1 .. (i - 1) : cm.zones[j] = "other"

\* C15 (as stated): Start retries the zone check at every poll until the
\* deadline: a mismatch followed by a match before the deadline passes the
\* check, and the check fails for a mismatch only after MaxPolls polls.
C15_RetriesUntilDeadline ==
    PollOver =>
        /\ MatchAfterMismatch => ~PollFailed
        /\ (PollFailed /\ cm.zones[cm.polls] = "other") => cm.polls = MaxPolls

\* the steps of `steps` that failed are the last thing Start did: it has
\* returned an error and executed nothing after them
FatalIn(steps) ==
    /\ \A i \in 1 .. Len(cm.log) :
          (cm.log[i] \in cm.fails \cap steps) =>
              /\ i = Len(cm.log)
              /\ cm.pc = "returned" /\ cm.result = "error" /\ cm.failed = cm.log[i]
    /\ PollFailed => cm.pc = "returned" /\ cm.result = "error" /\ cm.log = <<>>

\* C16 (as stated): when a step of Start other than the creation of the
\* logging meter fails (zone wait, feature probing, watch-factory start,
\* default-controller creation or start, NAD-supervisor start), Start
\* returns an error and executes none of the later steps.
C16_EveryFailureIsFatal ==
    FatalIn(FailingSteps \ {"createACLLoggingMeter"})

\* C16 (amended): the same for every step but the creation of the logging
\* meter and the service-template probe; a failed service-template probe
\* only turns the template support off and Start goes on.
C16_FailureIsFatalButTemplate ==
    /\ FatalIn(FailingSteps \ {"createACLLoggingMeter", "configureSvcTemplateSupport"})
    /\ ("configureSvcTemplateSupport" \in Executed \cap cm.fails) =>
          /\ ~cm.svcTemplateSupport
          /\ cm.failed # "configureSvcTemplateSupport"
          /\ cm.pc # "configureSvcTemplateSupport"

\* C16 witness: Start has returned the error of the default controller's
\* Start, in a run in which the service-template probe had failed too.
C16_Witness ==
    /\ cm.pc = "returned" /\ cm.result = "error"
    /\ cm.failed = "defaultNetworkController.Start"
    /\ "configureSvcTemplateSupport" \in cm.fails
    /\ "nadController.Start" \notin Executed /\ cm.nadController

\* C17 (as stated): a failure to create the logging meter is tolerated:
\* Start goes on with the remaining steps, so that whenever it returns
\* without error the watch factory and the default controller have been
\* started.
C17_MeterFailureTolerated ==
    (cm.pc = "returned" /\ cm.result = "nil") =>
        {"watchFactory.Start", "defaultNetworkController.Start"} \subseteq Started

\* step a was executed, without error, before step b was
Before(a, b) ==
    \E i, j \in 1 .. Len(cm.log) :
        i < j /\ cm.log[i] = a /\ cm.log[j] = b /\ cm.failed # a

\* C18: the watch factory is started before the default controller is
\* created and started, the default controller's Start has returned without
\* error before the NAD supervisor is started, and the NAD supervisor is
\* started only when multi-network is enabled.
C18_StartOrder ==
    /\ "initDefaultNetworkController" \in Executed =>
          Before("watchFactory.Start", "initDefaultNetworkController")
    /\ "defaultNetworkController.Start" \in Executed =>
          Before("initDefaultNetworkController", "defaultNetworkController.Start")
    /\ "nadController.Start" \in Executed =>
          /\ Before("defaultNetworkController.Start", "nadController.Start")
          /\ cm.nadController

\* C18 witness: with multi-network enabled Start has ended with the start
\* of the NAD supervisor, after the five steps before it.
C18_Witness ==
    /\ cm.pc = "returned" /\ cm.nadController
    /\ Len(cm.log) >= 3
    /\ SubSeq(cm.log, Len(cm.log) - 2, Len(cm.log)) =
          <<"initDefaultNetworkController", "defaultNetworkController.Start",
            "nadController.Start">>

\* what the database holds, in the order CleanupDeletedNetworks visits it,
\* and the Cleanup calls made so far on network n
Found == reaper.switches \o reaper.routers
FoundOf(n) == {i \in 1 .. Len(Found) : Found[i].net = n}
CleanupsOf(n) == {i \in 1 .. Len(reaper.calls) : reaper.calls[i].net = n}
\* the entities of network n whose topology has a controller
UsableOf(n) ==
    {i \in FoundOf(n) : Found[i].topo \in {Layer3Topology, Layer2Topology, LocalnetTopology}}
Last(S) == CHOOSE i \in S : \A j \in S : j <= i

\* C19 (as stated): CleanupDeletedNetworks calls Cleanup exactly once, on a
\* dummy controller of the recorded topology, for every network named by
\* some logical switch or router and not in the running set, and never for
\* a network of the running set.
C19_EveryStaleNetworkCleaned ==
    reaper.pc = "returned" =>
        \A n \in NetNames :
            IF n \notin reaper.running /\ FoundOf(n) # {}
            THEN /\ Cardinality(CleanupsOf(n)) = 1
                 /\ \A c \in CleanupsOf(n) :
                       reaper.calls[c].topo \in {Found[i].topo : i \in FoundOf(n)}
            ELSE CleanupsOf(n) = {}

\* C19 (amended): Cleanup is never called twice for a network and never for
\* a network of the running set; when CleanupDeletedNetworks returns, it has
\* called Cleanup exactly once for every network that is not in the running
\* set and has a switch or router whose topology is layer3, layer2 or
\* localnet, on a dummy of the topology of the last such switch or router
\* (switches before routers), provided the enumeration succeeded and the
\* dummy could be built; for every other network it has called nothing.
C19_StaleNetworksWithKnownTopologyCleaned ==
    /\ \A n \in NetNames :
          /\ Cardinality(CleanupsOf(n)) <= 1
          /\ n \in reaper.running => CleanupsOf(n) = {}
    /\ reaper.pc = "returned" =>
          \A n \in NetNames :
              IF /\ n \notin reaper.running /\ UsableOf(n) # {}
                 /\ reaper.enumFails = "none" /\ ~reaper.cnciFails
              THEN /\ Cardinality(CleanupsOf(n)) = 1
                   /\ \A c \in CleanupsOf(n) :
                         reaper.calls[c].topo = Found[Last(UsableOf(n))].topo
              ELSE CleanupsOf(n) = {}

\* C19 witness: CleanupDeletedNetworks has returned after one Cleanup, on a
\* network recorded with two topologies, while another network that is not
\* running either is recorded with a topology that has no controller.
C19_Witness ==
    /\ reaper.pc = "returned" /\ Len(reaper.calls) = 1
    /\ \E n \in NetNames :
          /\ CleanupsOf(n) # {}
          /\ Cardinality({Found[i].topo : i \in UsableOf(n)}) = 2
    /\ \E n \in NetNames \ reaper.running :
          FoundOf(n) # {} /\ UsableOf(n) = {}

\* C20: a Cleanup that fails does not stop CleanupDeletedNetworks: once the
\* enumeration has succeeded it returns nil, after a Cleanup call on every
\* network of staleNetworkControllers, whichever of these calls failed.
C20_CleanupFailureDoesNotBlock ==
    (reaper.pc = "returned" /\ reaper.enumFails = "none") =>
        /\ reaper.result = "nil"
        /\ \A n \in NetNames : reaper.stale[n] # "none" => CleanupsOf(n) # {}

\* C20 witness: CleanupDeletedNetworks has returned nil after two Cleanup
\* calls of which the first failed.
C20_Witness ==
    /\ reaper.pc = "returned" /\ reaper.result = "nil"
    /\ Len(reaper.calls) = 2
    /\ reaper.calls[1].err /\ ~reaper.calls[2].err

\* the stale networks of the database: named by a switch or router and not
\* in the running set
StaleNetworks == {n \in NetNames \ reaper.running : FoundOf(n) # {}}
\* Start has returned nil and the reaper has nothing left to do: it has
\* returned or it is never called
ManagerSettled ==
    /\ cm.pc = "returned" /\ cm.result = "nil"
    /\ reaper.pc = "returned" \/ ~NadStarted

\* C21 (as stated): after Start has returned successfully every stale
\* network of the database has had, or eventually has, a dummy controller of
\* its topology and its Cleanup call: once nothing is left to run, each
\* stale network has been cleaned.
C21_StaleNetworksCleanedAfterStart ==
    ManagerSettled =>
        \A n \in StaleNetworks :
            \E c \in CleanupsOf(n) :
                reaper.calls[c].topo \in {Found[i].topo : i \in FoundOf(n)}

\* the results of the NewNetworkController calls made so far
Results == Range(cm.controllers)

\* C22 (as stated): layer3 always yields a layer-3 controller; layer2 and
\* localnet yield their controller exactly when interconnect is disabled
\* and an error otherwise; any other topology yields an error; no
\* controller is of a topology other than the requested one.
C22_ConstructorByTopology ==
    \A r \in Results :
        /\ r.topo = Layer3Topology => (~r.err /\ r.controller = Layer3Topology)
        /\ r.topo \in {Layer2Topology, LocalnetTopology} =>
              IF cm.enableInterconnect THEN r.err /\ r.controller = "none"
              ELSE ~r.err /\ r.controller = r.topo
        /\ r.topo \notin {Layer3Topology, Layer2Topology, LocalnetTopology} =>
              (r.err /\ r.controller = "none")
        /\ ~r.err => r.controller = r.topo

\* C22 (amended): the same, whenever the common controller info can be
\* created; when it cannot, every topology yields an error and no
\* controller.
C22_ConstructorByTopologyUnlessInfoFails ==
    \A r \in Results :
        /\ cm.cnciFails => (r.err /\ r.controller = "none")
        /\ ~cm.cnciFails =>
              /\ r.topo = Layer3Topology => (~r.err /\ r.controller = Layer3Topology)
              /\ r.topo \in {Layer2Topology, LocalnetTopology} =>
                    IF cm.enableInterconnect THEN r.err /\ r.controller = "none"
                    ELSE ~r.err /\ r.controller = r.topo
              /\ r.topo \notin {Layer3Topology, Layer2Topology, LocalnetTopology} =>
                    (r.err /\ r.controller = "none")
        /\ ~r.err => r.controller = r.topo
        /\ r.err <=> r.controller = "none"

\* C22 witness: with interconnect enabled a layer-3 controller has been
\* made and a layer-2 one refused.
C22_Witness ==
    /\ cm.enableInterconnect /\ ~cm.cnciFails
    /\ \E r \in Results : r.topo = Layer3Topology /\ ~r.err
    /\ \E r \in Results : r.topo = Layer2Topology /\ r.err

\* the schemas of the catalog that carry owner label o
SchemasOf(o) == {i \in 1 .. Len(catalog) : catalog[i].ownerObjectType = o}
OwnerLabels == {catalog[i].ownerObjectType : i \in 1 .. Len(catalog)}

\* C23: in the object-IDs catalog every schema has a non-empty key list,
\* no key appears twice in one schema, and every owner label is used by
\* exactly one schema.
C23_CatalogWellFormed ==
    /\ \A i \in 1 .. Len(catalog) :
          LET keys == catalog[i].keys
          IN /\ Len(keys) >= 1
             /\ \A a, b \in 1 .. Len(keys) : keys[a] = keys[b] => a = b
    /\ \A o \in OwnerLabels : Cardinality(SchemasOf(o)) = 1

\* C23 witness: the catalog holds eleven schemas of both record kinds,
\* among them two with the same key list under different owner labels,
\* while the manager is in use.
C23_Witness ==
    /\ Len(catalog) = 11 /\ Cardinality(OwnerLabels) = 11
    /\ {catalog[i].dbTable : i \in 1 .. Len(catalog)} = {addressSet, acl}
    /\ \E i, j \in 1 .. Len(catalog) : i # j /\ catalog[i].keys = catalog[j].keys
    /\ cm.controllers # <<>>

\* C24: removeHandler on a handler that is already removed schedules no
\* second excision, leaves the handler dead, and changes neither the
\* priority map nor the liveness of any other handler.
C24_RemoveHandlerIdempotent ==
    [][\A h \in HandlerIds :
          (handlers[h].tombstone = handlerDead /\ RemoveHandler(h)) =>
             /\ handlers'[h].excise = handlers[h].excise
             /\ handlers'[h].tombstone = handlerDead
             /\ \A g \in HandlerIds :
                   /\ handlers'[g].inMap = handlers[g].inMap
                   /\ handlers'[g].priority = handlers[g].priority
                   /\ g # h => handlers'[g].tombstone = handlers[g].tombstone]_vars

\* C24 witness: a handler was removed and excised, so that removeHandler on
\* it finds it dead, while another handler is alive in the priority map.
C24_Witness ==
    \E h, g \in HandlerIds :
        /\ h # g /\ Returned(h)
        /\ handlers[h].tombstone = handlerDead /\ handlers[h].excise = "done"
        /\ ~handlers[h].inMap
        /\ handlers[g].inMap /\ handlers[g].tombstone = handlerAlive

\* worker w releases, in this step, a delete event of a key of which no
\* event has completed before: as the events of a key that are in flight
\* together are served in order by one worker, the key had no entry when this
\* delete was routed
ReleasesUnknownDelete(w) ==
    /\ WorkerRelease(w)
    /\ workers[w].ev.kind = "delete"
    /\ lastDone[workers[w].ev.obj.key] = "none"
\* the other events of the key of worker w's event that are in flight
OthersInFlight(w) ==
    {x \in InFlight : KeyOf(x) = workers[w].ev.obj.key /\ x.ev # workers[w].ev}
\* the entries of the keys other than k are the same before and after the step
OtherEntriesKept(k) ==
    /\ DOMAIN entries' \ {k} = DOMAIN entries \ {k}
    /\ \A x \in DOMAIN entries \ {k} : entries'[x] = entries[x]

\* C25 (as stated): once a delete event for a key that had no queue map entry
\* has been processed, no entry for that key remains.
C25_UnknownDeleteLeavesNoEntry ==
    [][\A w \in Queues :
          ReleasesUnknownDelete(w) => workers[w].ev.obj.key \notin DOMAIN entries']_vars

\* C25 (amended): routing a delete event for a key that has no entry adds an
\* entry for that key only; its completion changes the entry of no other key
\* and removes the key's entry, unless another event of the key was routed in
\* the meantime, in which case the entry stays.
C25_UnknownDeleteNetNoOp ==
    /\ [][\A v \in DeleteInputs :
             (QueuedDeleteFunc(v) /\ ~ensureObjectOnDelete(v).err
                /\ v.key \notin DOMAIN entries)
             => /\ OtherEntriesKept(v.key)
                /\ v.key \in DOMAIN entries' /\ entries'[v.key].refcount = 1]_vars
    /\ [][\A w \in Queues :
             ReleasesUnknownDelete(w)
             => /\ OtherEntriesKept(workers[w].ev.obj.key)
                /\ workers[w].ev.obj.key \notin DOMAIN entries'
                   <=> OthersInFlight(w) = {}]_vars

\* C25 witness: the second event delivered was the first of key a, a delete;
\* it has been processed, the entry of a is gone and the entry of key b,
\* which the map held before, is still there.
C25_Witness ==
    /\ mode = "queued" /\ delivered = 2
    /\ lastDone["a"] = "delete" /\ lastDone["b"] = "add"
    /\ DOMAIN entries = {"b"}

\* an event of key k is routed in this step: getQueueMapEntry has created the
\* entry of k or incremented its refcount
Routed(k) ==
    /\ k \in DOMAIN entries'
    /\ k \in DOMAIN entries => entries'[k].refcount = entries[k].refcount + 1
\* the queue indexes getNewQueueNum may return in the current state
FreshQueues == {getNewQueueNum(queues, startIdx) : startIdx \in StartIdxs}
\* a worker completes, in this step, a delete event of key k
DeleteCompletes(k) ==
    \E w \in Queues :
        /\ workers[w].pc = "release" /\ workers'[w] = IdleRunner
        /\ workers[w].ev.kind = "delete" /\ workers[w].ev.obj.key = k

\* C26: routing an event reuses the queue index of the key's entry when the
\* entry exists with at least one event in flight; a fresh index is picked
\* only when the entry is absent or its refcount rises from 0 to 1; an entry
\* is removed only by the completion of a delete event that brings its
\* refcount to 0 or below.
C26_ReuseOrFreshQueue ==
    [][\A k \in Keys :
          /\ (Routed(k) /\ k \in DOMAIN entries /\ entries[k].refcount >= 1)
             => entries'[k].queue = entries[k].queue
          /\ (Routed(k) /\ k \notin DOMAIN entries)
             => entries'[k].refcount = 1 /\ entries'[k].queue \in FreshQueues
          /\ (k \in DOMAIN entries /\ k \in DOMAIN entries'
                /\ entries'[k].queue # entries[k].queue)
             => /\ entries[k].refcount = 0 /\ entries'[k].refcount = 1
                /\ entries'[k].queue \in FreshQueues
          /\ (k \in DOMAIN entries /\ k \notin DOMAIN entries')
             => DeleteCompletes(k) /\ entries[k].refcount - 1 <= 0]_vars

\* C26 witness: the entry of key a was removed by a completed delete, and two
\* events of key b are in flight on the one queue of b's entry, with room in
\* the other queue.
C26_Witness ==
    /\ mode = "queued"
    /\ lastDone["a"] = "delete" /\ DOMAIN entries = {"b"}
    /\ entries["b"].refcount = 2
    /\ \A x \in InFlight : x.q = entries["b"].queue
    /\ Cardinality(InFlight) = 2

\* the position of queue q in the ring scanned from startIdx
RingPos(qs, startIdx, q) ==
    (q - startIdx + numEventQueues(qs)) % numEventQueues(qs)
\* q is, of the queues of minimal length, the first met from startIdx
FirstMinimal(qs, startIdx, q) ==
    /\ q \in 0 .. (numEventQueues(qs) - 1)
    /\ \A p \in DOMAIN qs :
          /\ Len(qs[q]) <= Len(qs[p])
          /\ Len(qs[p]) = Len(qs[q]) => RingPos(qs, startIdx, q) <= RingPos(qs, startIdx, p)

\* C27: for any number N >= 1 of queues and any queue lengths getNewQueueNum
\* returns an index in [0, N) of a queue of minimal length, the first such
\* queue met when the ring is scanned from the start index chosen.
C27_ReturnsFirstMinimal ==
    [][/\ ~PickQueuePanics
       /\ \A startIdx \in 0 .. (MaxQueueNum - 1) :
             PickQueue(startIdx) => FirstMinimal(queues, startIdx, watch'.q)]_vars

\* C27 witness: getNewQueueNum was called on a map of a single queue.
C27_Witness ==
    /\ numEventQueues(queues) = 1
    /\ panicked

\* addHandler is blocked in the channel send of its replay: the channel is
\* full and its worker has returned on stopChan
ReplayStuck ==
    /\ adder.pc = "send" /\ stopped
    /\ Len(aQueues[adder.q]) = QueueCap
    /\ aWorkers[adder.q].pc = "exited"

\* C28: after removeHandler(h) on a live handler, h is eventually deleted
\* from the priority map by the goroutine that takes the write lock, and
\* the removal neither deletes nor marks dead any other handler.
C28_RemovedHandlerExcised ==
    /\ \A h \in HandlerIds : (handlers[h].excise = "spawned") ~> ~handlers[h].inMap
    /\ [][\A h \in HandlerIds :
             ((RemoveHandler(h) /\ handlers[h].tombstone = handlerAlive) \/ ExciseHandler(h))
             => \A g \in HandlerIds \ {h} :
                   /\ handlers'[g].inMap = handlers[g].inMap
                   /\ handlers'[g].tombstone = handlers[g].tombstone]_vars

\* C28 witness: removeHandler has killed a live handler and its goroutine
\* waits for the write lock, which an addHandler blocked in its replay holds.
C28_Witness ==
    /\ ReplayStuck /\ rw.writer
    /\ \E h \in HandlerIds :
          /\ handlers[h].excise = "spawned" /\ handlers[h].inMap
          /\ handlers[h].tombstone = handlerDead

\* C30: in queued mode addHandler eventually returns, also when stopChan is
\* closed while the replay is enqueued or processed.
C30_AddHandlerReturns ==
    (mode = "queued" /\ adder.pc # "idle") ~> (adder.pc = "idle")

\* C30 witness: stopChan was closed during a replay of more items than the
\* channels hold, the workers of addsMap have returned and addHandler is
\* blocked sending the next item.
C30_Witness ==
    /\ mode = "queued" /\ ReplayStuck
    /\ Len(adder.items) = 1 /\ Len(adder.snapshot) = ReplayItems
    /\ \A w \in Queues : aWorkers[w].pc = "exited"

\* the items routed through the addsMap of the running replay and not yet
\* released: routed and waiting for the send, queued, or being processed
ReplayInFlight ==
    (IF adder.pc = "send" THEN {[obj |-> Head(adder.items), at |-> "send"]} ELSE {})
    \cup UNION {{[obj |-> aQueues[q][i].obj, at |-> "queued"] : i \in 1 .. Len(aQueues[q])} :
                  q \in Queues}
    \cup {[obj |-> aWorkers[w].ev.obj, at |-> "run"] :
            w \in {v \in Queues : aWorkers[v].pc = "run"}}

\* C29: in every reachable state the refcount of every queue map entry is the
\* number of events of its key that were routed and have not released the
\* entry yet (waiting for the send, queued or being processed), and it is
\* never negative.
C29_RefcountCountsInFlight ==
    /\ \A k \in DOMAIN entries :
          /\ entries[k].refcount = Cardinality({x \in InFlight : KeyOf(x) = k})
          /\ entries[k].refcount >= 0
    /\ \A k \in DOMAIN aEntries :
          /\ aEntries[k].refcount = Cardinality({x \in ReplayInFlight : x.obj.key = k})
          /\ aEntries[k].refcount >= 0

\* C29 witness: the entry of one key counts two events, one being processed
\* and one queued, while the entry of the other key is kept with refcount 0
\* after its event completed.
C29_Witness ==
    /\ mode = "queued"
    /\ \E k, j \in Keys :
          /\ k \in DOMAIN entries /\ j \in DOMAIN entries
          /\ entries[k].refcount = 2 /\ entries[j].refcount = 0
          /\ \E x, y \in InFlight :
                KeyOf(x) = k /\ KeyOf(y) = k /\ x.at = "fan" /\ y.at = "queued"

\* the stale networks recorded with no topology that has a controller
Unsupported == {n \in StaleNetworks : UsableOf(n) = {}}
\* what C31 says of the unsupported networks and of the result, apart from
\* the cleaning of the other stale networks
UnsupportedSkipped ==
    /\ \A n \in Unsupported : reaper.stale[n] = "none" /\ CleanupsOf(n) = {}
    /\ reaper.pc = "returned" =>
          /\ reaper.result = "error" <=> reaper.enumFails # "none"
          /\ reaper.enumFails # "none" => reaper.calls = <<>>

\* C31 (as stated): a stale network recorded with a topology other than
\* layer3, layer2 and localnet gets no dummy controller and no Cleanup; the
\* other stale networks are cleaned up and nil is returned; an error is
\* returned only when the enumeration fails, and then nothing is cleaned.
C31_UnsupportedSkippedOthersCleaned ==
    /\ UnsupportedSkipped
    /\ (reaper.pc = "returned" /\ reaper.enumFails = "none") =>
          \A n \in StaleNetworks \ Unsupported : CleanupsOf(n) # {}

\* C31 (amended): as stated, but the other stale networks are cleaned up
\* only when their dummy controller can be built; when the common controller
\* info cannot be created no network is cleaned up, and nil is returned.
C31_UnsupportedSkippedOthersCleanedIfBuilt ==
    /\ UnsupportedSkipped
    /\ (reaper.pc = "returned" /\ reaper.enumFails = "none") =>
          IF reaper.cnciFails THEN reaper.calls = <<>>
          ELSE \A n \in StaleNetworks \ Unsupported : CleanupsOf(n) # {}

\* C31 witness: CleanupDeletedNetworks has returned nil; one stale network
\* is recorded with an unsupported topology only and was left alone, and the
\* other stale network was cleaned up.
C31_Witness ==
    /\ reaper.pc = "returned" /\ reaper.result = "nil" /\ ~reaper.cnciFails
    /\ Unsupported # {}
    /\ \E n \in StaleNetworks \ Unsupported : CleanupsOf(n) # {}
    /\ \A n \in Unsupported : CleanupsOf(n) = {}

\* C32: every resource type that needs update during retry has a dedicated
\* update function, so that its update is never a delete followed by an add.
C32_RetryUpdateHasUpdateFunc ==
    \A i \in 1 .. Len(queried) : queried[i].needsUpdate => queried[i].hasUpdateFunc

\* C32 witness: a type that needs update during retry was asked about, after
\* a type that has an update function and does not need it.
C32_Witness ==
    /\ Len(queried) = 2
    /\ queried[1].hasUpdateFunc /\ ~queried[1].needsUpdate
    /\ queried[2].needsUpdate /\ queried[2].objType = "MultiNetworkPolicyType"

=====
